---- MODULE Spec2Model ----
(***************************************************************************)
(* Behavioural model of the four client packages of the repository         *)
(* (Artemis, OpenSearch, Redis, S3): the wrapper clients, the HTTP routes  *)
(* that call them, the settings records and the lifespan hooks.            *)
(*                                                                         *)
(* The backing services (the Redis server, the AMQP container, the S3      *)
(* store) are modelled by their documented command semantics; everything   *)
(* the repository's code computes (conversions, branches, return values,   *)
(* HTTP answers) is modelled from the code.                                *)
(*                                                                         *)
(* One specification per package or group of operations (SpecRedis,       *)
(* SpecQueues, SpecArtemis, SpecS3, SpecLifespan, SpecSettings,            *)
(* SpecOpenSearch, SpecSearch).  The variables of the other packages stay  *)
(* at their initial value in each of them.                                 *)
(***************************************************************************)
EXTENDS Integers, Sequences, FiniteSets, TLC

VARIABLES
    \* ---- Redis ----
    decode_responses,   \* the connection's decode_responses option
    lists,              \* Redis server: key (bytes) -> list of byte strings, head = left
    blocked,            \* Redis server: clients blocked in BLPOP/BRPOP, oldest first
    last,               \* history: the most recent completed client call
    prev,               \* history: the call completed before `last`
    \* ---- Artemis ----
    senders,            \* the _OneShotSender objects, by object id
    calls,              \* the send_message calls: position, request, events, result
    \* ---- S3 ----
    objects,            \* S3 store: <<bucket, key>> -> the object's body, or None
    intended,           \* history: <<bucket, key>> -> the bytes the last upload was for
    s3call,             \* history: the most recent S3 call and its result
    \* ---- lifespans ----
    apps,               \* per package: the application, its state and its connection
    \* ---- settings ----
    environ,            \* os.environ: variable -> value
    settings_cache,     \* per settings module: what lru_cache holds for get_settings
    instances,          \* per settings module: the settings objects built so far
    first_settings,     \* history: per module, the first record get_settings returned
    settings_call,      \* history: the most recent get_settings call
    \* ---- OpenSearch ----
    indices,            \* OpenSearch cluster: index name -> existence and documents
    oscall,             \* history: the most recent OpenSearch call and its result
    searches,           \* history: the hybrid searches sent, oldest first (at most two)
    \* ---- sync_dir ----
    remote,             \* the bucket sync_dir reads: key -> the object's body, or None
    local_fs,           \* the local file system: path -> directory or the file's bytes
    synccall,           \* history: the most recent sync_dir call and its result
    \* ---- get_stream ----
    transfer,           \* the running get_stream / download_object_to_file call
    \* ---- order of a Redis queue ----
    oplog,              \* history: the pushes and pops of one queue, in server order
    \* ---- bulk indexing ----
    bulk,               \* history: the most recent bulk_index_documents call
    \* ---- the routes' client dependency ----
    routing             \* per package: the client in app.state, the clients handed
                        \* to handlers; the most recent request with what the
                        \* state held when it came

redisVars == <<decode_responses, lists, blocked, last, prev>>
artemisVars == <<senders, calls>>
s3Vars == <<objects, intended, s3call>>
lifespanVars == <<apps>>
settingsVars == <<environ, settings_cache, instances, first_settings, settings_call>>
opensearchVars == <<indices, oscall, searches>>
syncVars == <<remote, local_fs, synccall>>
streamVars == <<transfer>>
logVars == <<oplog>>
bulkVars == <<bulk>>
routingVars == <<routing>>

vars == <<redisVars, artemisVars, s3Vars, lifespanVars, settingsVars, opensearchVars, syncVars, streamVars, logVars, bulkVars, routingVars>>
otherThanRedis == <<artemisVars, s3Vars, lifespanVars, settingsVars, opensearchVars, syncVars, streamVars, logVars, bulkVars, routingVars>>
otherThanArtemis == <<redisVars, s3Vars, lifespanVars, settingsVars, opensearchVars, syncVars, streamVars, logVars, bulkVars, routingVars>>
otherThanS3 == <<redisVars, artemisVars, lifespanVars, settingsVars, opensearchVars, syncVars, streamVars, logVars, bulkVars, routingVars>>
otherThanLifespan == <<redisVars, artemisVars, s3Vars, settingsVars, opensearchVars, syncVars, streamVars, logVars, bulkVars, routingVars>>
otherThanSettings == <<redisVars, artemisVars, s3Vars, lifespanVars, opensearchVars, syncVars, streamVars, logVars, bulkVars, routingVars>>
otherThanOpenSearch == <<redisVars, artemisVars, s3Vars, lifespanVars, settingsVars, syncVars, streamVars, logVars, bulkVars, routingVars>>
otherThanSync == <<redisVars, artemisVars, s3Vars, lifespanVars, settingsVars, opensearchVars, streamVars, logVars, bulkVars, routingVars>>
otherThanStream == <<redisVars, artemisVars, s3Vars, lifespanVars, settingsVars, opensearchVars, syncVars, logVars, bulkVars, routingVars>>
otherThanRedisAndLog == <<artemisVars, s3Vars, lifespanVars, settingsVars, opensearchVars, syncVars, streamVars, bulkVars, routingVars>>
otherThanOpenSearchAndBulk == <<redisVars, artemisVars, s3Vars, lifespanVars, settingsVars, syncVars, streamVars, logVars, routingVars>>
otherThanRouting == <<redisVars, artemisVars, s3Vars, lifespanVars, settingsVars, opensearchVars, syncVars, streamVars, logVars, bulkVars>>

(***************************************************************************)
(* Python values.  A str is a sequence of code points, a bytes object a    *)
(* sequence of numbers 0..255.  Every value is a record of the same shape  *)
(* so that values of different Python types can be compared.               *)
(***************************************************************************)
PyNone == [t |-> "None", n |-> 0, s |-> <<>>, k |-> <<>>, l |-> <<>>]
PyInt(i) == [t |-> "int", n |-> i, s |-> <<>>, k |-> <<>>, l |-> <<>>]
PyBool(b) == [t |-> "bool", n |-> IF b THEN 1 ELSE 0, s |-> <<>>, k |-> <<>>, l |-> <<>>]
PyStr(cps) == [t |-> "str", n |-> 0, s |-> cps, k |-> <<>>, l |-> <<>>]
PyBytes(bs) == [t |-> "bytes", n |-> 0, s |-> bs, k |-> <<>>, l |-> <<>>]
\* a list of str
PyList(elems) == [t |-> "list", n |-> 0, s |-> <<>>, k |-> <<>>, l |-> elems]
\* a 2-tuple (first, second) of two str (ty = "str") or two bytes (ty = "bytes")
PyPair(ty, first, second) ==
    [t |-> "tuple", n |-> IF ty = "str" THEN 0 ELSE 1, s |-> second, k |-> first, l |-> <<>>]
\* an exception leaving the call
\* a dict: its keys and values in insertion order, k1, v1, k2, v2, ...
PyDict(items) == [t |-> "dict", n |-> 0, s |-> <<>>, k |-> <<>>, l |-> items]
PyRaise(name) == [t |-> name, n |-> 0, s |-> <<>>, k |-> <<>>, l |-> <<>>]

Exceptions == {"UnicodeDecodeError", "ResponseError",
               "FileNotFoundError", "NoSuchBucket", "NoSuchKey",
               "NotFoundError", "ConnectionError", "RequestError",
               "ClientError", "EndpointConnectionError", "OSError"}
Raised(v) == v.t \in Exceptions

(***************************************************************************)
(* Encodings                                                               *)
(***************************************************************************)
\* str.encode("utf-8") of one code point (up to U+FFFF)
Utf8EncodeCp(c) ==
    IF c < 128 THEN <<c>>
    ELSE IF c < 2048 THEN <<192 + (c \div 64), 128 + (c % 64)>>
    ELSE <<224 + (c \div 4096), 128 + ((c \div 64) % 64), 128 + (c % 64)>>

RECURSIVE Utf8Encode(_)
Utf8Encode(cps) ==
    IF cps = <<>> THEN <<>> ELSE Utf8EncodeCp(Head(cps)) \o Utf8Encode(Tail(cps))

IsCont(b) == b >= 128 /\ b < 192

\* bytes.decode("utf-8"): [ok, val]; ok = FALSE stands for UnicodeDecodeError
RECURSIVE Utf8Decode(_)
Utf8Decode(bs) ==
    IF bs = <<>> THEN [ok |-> TRUE, val |-> <<>>]
    ELSE LET b0 == bs[1]
             n == IF b0 < 128 THEN 1
                  ELSE IF b0 >= 194 /\ b0 < 224 THEN 2
                  ELSE IF b0 >= 224 /\ b0 < 240 THEN 3
                  ELSE 0
             wellFormed ==
                 /\ n > 0
                 /\ Len(bs) >= n
                 /\ \A i \in 2..n : IsCont(bs[i])
                 /\ (n = 3 /\ b0 = 224) => bs[2] >= 160
             cp == IF n = 1 THEN b0
                   ELSE IF n = 2 THEN (b0 - 192) * 64 + (bs[2] - 128)
                   ELSE (b0 - 224) * 4096 + (bs[2] - 128) * 64 + (bs[3] - 128)
         IN  IF ~wellFormed THEN [ok |-> FALSE, val |-> <<>>]
             ELSE LET rest == Utf8Decode(SubSeq(bs, n + 1, Len(bs)))
                  IN  IF rest.ok THEN [ok |-> TRUE, val |-> <<cp>> \o rest.val]
                      ELSE rest

HexDigit(d) == IF d < 10 THEN 48 + d ELSE 87 + d

\* json's string escape with ensure_ascii=True, for one code point
JsonEscapeCp(c) ==
    IF c = 34 THEN <<92, 34>>
    ELSE IF c = 92 THEN <<92, 92>>
    ELSE IF c >= 32 /\ c < 127 THEN <<c>>
    ELSE <<92, 117, HexDigit(c \div 4096), HexDigit((c \div 256) % 16),
           HexDigit((c \div 16) % 16), HexDigit(c % 16)>>

RECURSIVE JsonEscape(_)
JsonEscape(cps) ==
    IF cps = <<>> THEN <<>> ELSE JsonEscapeCp(Head(cps)) \o JsonEscape(Tail(cps))

RECURSIVE JsonItems(_)
JsonItems(elems) ==
    IF elems = <<>> THEN <<>>
    ELSE <<34>> \o JsonEscape(Head(elems)) \o <<34>>
         \o (IF Len(elems) > 1 THEN <<44, 32>> ELSE <<>>)
         \o JsonItems(Tail(elems))

\* json.dumps of a list of str
JsonDumps(elems) == <<91>> \o JsonItems(elems) \o <<93>>

(***************************************************************************)
(* HTTP answers of the routes                                              *)
(***************************************************************************)
NoBody == [queue_name |-> <<>>, message |-> PyNone, text |-> ""]
NoResp == [status |-> 0, detail |-> <<>>, body |-> NoBody]
HTTPException(status_code, detail) ==
    [status |-> status_code, detail |-> detail, body |-> NoBody]
Ok200(body) == [status |-> 200, detail |-> <<>>, body |-> body]
\* an exception that is not an HTTPException leaves the handler
InternalServerError == HTTPException(500, <<"Internal Server Error">>)

(***************************************************************************)
(* Redis: inputs and bounds                                                *)
(***************************************************************************)
MaxQueued == 2
MaxBlocked == 1
MaxTimeout == 1
MaxCount == 3

\* queue names "q" and "é"
QueueNames == {<<113>>, <<233>>}
Sides == {"left", "right"}
\* "", "é", b"\xc3\xa9", b"\xff", ["é"]
Messages == {PyStr(<<>>), PyStr(<<233>>), PyBytes(<<195, 169>>), PyBytes(<<255>>),
             PyList(<< <<233>> >>)}
\* queue_names of a blocking pop: one name, or a list of names
NameArgs ==
    {[isStr |-> TRUE, names |-> <<q>>] : q \in QueueNames}
    \cup {[isStr |-> FALSE, names |-> <<p[1], p[2]>>] :
             p \in {x \in QueueNames \X QueueNames : x[1] # x[2]}}
    \cup {[isStr |-> FALSE, names |-> <<>>]}
OneName(q) == [isStr |-> TRUE, names |-> <<q>>]

Keys == {Utf8Encode(q) : q \in QueueNames}
\* count of a queue_peek call; the route accepts 1..1000 (QueuePeekRequest)
Counts == 0..MaxCount
RouteCounts == {c \in Counts : c >= 1 /\ c <= 1000}

(***************************************************************************)
(* Redis server and the SDK connection                                     *)
(***************************************************************************)
\* mutant: RPUSH replaces the list by the new element
PushSide_rpush_replaces(lst, val, cmd) ==
    IF cmd = "LPUSH" THEN <<val>> \o lst ELSE <<val>>

\* LPUSH / RPUSH on a list
PushSide(lst, val, cmd) == IF cmd = "LPUSH" THEN <<val>> \o lst ELSE Append(lst, val)
\* LPOP, BLPOP / RPOP, BRPOP on a non-empty list: the element and the rest
PopSide(lst, cmd) ==
    IF cmd \in {"LPOP", "BLPOP"}
    THEN [val |-> Head(lst), rest |-> Tail(lst)]
    ELSE [val |-> lst[Len(lst)], rest |-> SubSeq(lst, 1, Len(lst) - 1)]

\* a reply value as the connection hands it to the caller
SdkValue(bs, decode) == IF decode THEN PyStr(Utf8Decode(bs).val) ELSE PyBytes(bs)
SdkPair(key, val, decode) ==
    IF decode THEN PyPair("str", Utf8Decode(key).val, Utf8Decode(val).val)
    ELSE PyPair("bytes", key, val)

\* LRANGE key start stop: negative indexes count from the end of the list
LRange(lst, start, stop) ==
    LET llen == Len(lst)
        s0 == IF start < 0 THEN llen + start ELSE start
        e0 == IF stop < 0 THEN llen + stop ELSE stop
        s1 == IF s0 < 0 THEN 0 ELSE s0
        e1 == IF e0 >= llen THEN llen - 1 ELSE e0
    IN  IF s1 > e0 \/ s1 >= llen THEN <<>> ELSE SubSeq(lst, s1 + 1, e1 + 1)

\* DEL key: the number of keys removed; a list exists while it has elements
Del(ls, key) == IF ls[key] = <<>> THEN 0 ELSE 1

\* number of elements the server holds
RECURSIVE SumLen(_, _)
SumLen(ls, keys) ==
    IF keys = {} THEN 0
    ELSE LET key == CHOOSE x \in keys : TRUE
         IN  Len(ls[key]) + SumLen(ls, keys \ {key})
Queued(ls) == SumLen(ls, Keys)

RemoveAt(seq, i) == SubSeq(seq, 1, i - 1) \o SubSeq(seq, i + 1, Len(seq))
InSeq(x, seq) == \E i \in 1..Len(seq) : seq[i] = x

\* the longest-blocked client waiting for key, or 0
FirstWaiter(bl, key) ==
    IF \E i \in 1..Len(bl) : InSeq(key, bl[i].keys)
    THEN CHOOSE i \in 1..Len(bl) :
            /\ InSeq(key, bl[i].keys)
            /\ \A j \in 1..(i - 1) : ~InSeq(key, bl[j].keys)
    ELSE 0

\* the first of the keys that holds an element, or 0
FirstNonEmpty(ls, keys) ==
    IF \E i \in 1..Len(keys) : ls[keys[i]] # <<>>
    THEN CHOOSE i \in 1..Len(keys) :
            /\ ls[keys[i]] # <<>>
            /\ \A j \in 1..(i - 1) : ls[keys[j]] = <<>>
    ELSE 0

(***************************************************************************)
(* RedisClient (client.py)                                                 *)
(***************************************************************************)
\* queue_push: the message as the string that is stored
MessageStr(message) ==
    IF message.t = "list" THEN [ok |-> TRUE, val |-> JsonDumps(message.l)]
    ELSE IF message.t = "bytes" THEN Utf8Decode(message.s)
    ELSE [ok |-> TRUE, val |-> message.s]

PushCommand(side) == IF side = "left" THEN "LPUSH" ELSE "RPUSH"
\* queue_pop that pops on the left whatever the side
PopCommand_left(side) == "LPOP"
PopCommand(side) == IF side = "left" THEN "LPOP" ELSE "RPOP"
BlockingPopCommand(side) == IF side = "left" THEN "BLPOP" ELSE "BRPOP"

\* mutant: the bytes reply is returned without decoding it
queue_pop_result_undecoded(reply) == reply

\* mutant: an empty message is taken for an empty queue ("if not result")
queue_pop_result_falsy(reply) ==
    IF reply = PyNone \/ reply.s = <<>> THEN PyNone
    ELSE IF reply.t = "bytes" THEN PyStr(Utf8Decode(reply.s).val)
    ELSE reply

\* queue_pop: what it returns for the connection's reply
queue_pop_result(reply) ==
    IF reply = PyNone THEN PyNone
    ELSE IF reply.t = "bytes" THEN PyStr(Utf8Decode(reply.s).val)
    ELSE reply

\* queue_blocking_pop: the names and the timeout handed to the connection
BlockingPopNames(queue_names) ==
    IF queue_names.isStr THEN <<queue_names.names[1]>> ELSE queue_names.names
\* mutant: timeout 0 is replaced by a default of one second ("timeout or 1")
BlockingPopTimeout_default(timeout) == IF timeout = 0 THEN 1 ELSE timeout

BlockingPopTimeout(timeout) == timeout

\* mutant: the message is decoded, the queue name is not
queue_blocking_pop_result_rawname(reply) ==
    IF reply = PyNone THEN PyNone
    ELSE PyPair(IF reply.n = 1 THEN "bytes" ELSE "str", reply.k,
                IF reply.n = 1 THEN Utf8Decode(reply.s).val ELSE reply.s)

\* queue_blocking_pop: what it returns for the connection's reply
queue_blocking_pop_result(reply) ==
    IF reply = PyNone THEN PyNone
    ELSE PyPair("str",
                IF reply.n = 1 THEN Utf8Decode(reply.k).val ELSE reply.k,
                IF reply.n = 1 THEN Utf8Decode(reply.s).val ELSE reply.s)

\* queue_size: LLEN
queue_size(ls, queue_name) == Len(ls[Utf8Encode(queue_name)])

\* queue_peek: the range it asks the connection for, decoded
queue_peek(ls, decode, queue_name, count, side) ==
    LET lst == ls[Utf8Encode(queue_name)]
        result == IF side = "left" THEN LRange(lst, 0, count - 1)
                  ELSE LRange(lst, 0 - count, 0 - 1)
        reply == [i \in 1..Len(result) |-> SdkValue(result[i], decode)]
    IN  [i \in 1..Len(reply) |->
            IF reply[i].t = "bytes" THEN Utf8Decode(reply[i].s).val ELSE reply[i].s]

\* mutant: True whenever the DEL command was sent
queue_clear_always(deleted) == TRUE

\* queue_clear: deleted > 0
queue_clear(deleted) == deleted > 0

\* queue_exists: size > 0
queue_exists(ls, queue_name) == queue_size(ls, queue_name) > 0

(***************************************************************************)
(* Redis routes (routes.py)                                                *)
(***************************************************************************)
queue_push_route(queue_name, size) ==
    IF Raised(size) THEN InternalServerError
    ELSE Ok200([queue_name |-> queue_name, message |-> size,
                text |-> "Message added to queue"])

queue_pop_route(queue_name, message) ==
    IF message = PyNone
    THEN HTTPException(404, <<"Queue '", queue_name, "' is empty">>)
    ELSE Ok200([queue_name |-> queue_name, message |-> message, text |-> ""])

queue_blocking_pop_route(result) ==
    IF Raised(result) THEN InternalServerError
    ELSE IF result = PyNone
    THEN HTTPException(408, <<"Timeout: no message received within the specified timeout">>)
    ELSE Ok200([queue_name |-> result.k, message |-> PyStr(result.s), text |-> ""])

queue_peek_route(queue_name, messages) ==
    [status |-> 200, detail |-> <<>>,
     body |-> [queue_name |-> queue_name, messages |-> messages,
               count |-> Len(messages)]]

queue_size_route(queue_name, size) ==
    [status |-> 200, detail |-> <<>>,
     body |-> [queue_name |-> queue_name, size |-> size]]

queue_clear_route(queue_name, cleared) ==
    Ok200([queue_name |-> queue_name, message |-> PyNone,
           text |-> IF cleared THEN "Queue cleared successfully"
                    ELSE "Queue was already empty or does not exist"])

queue_exists_route(queue_name, exists) ==
    [status |-> 200, detail |-> <<>>,
     body |-> [queue_name |-> queue_name, exists |-> exists]]

(***************************************************************************)
(* Redis: the calls                                                        *)
(***************************************************************************)
\* a blocking pop that a push (or a timeout) completed
NoDelivery == [done |-> FALSE, timeout |-> 0, ret |-> PyNone, resp |-> NoResp]
Delivery(w, ret) ==
    [done |-> TRUE, timeout |-> w.requested, ret |-> ret,
     resp |-> queue_blocking_pop_route(ret)]

\* one completed call: arguments, the size of the named queue before it, the
\* value the client method returned, the route's answer for it, and the
\* blocked pop it completed (a push only)
Call(op, arg, side, msg, timeout, sizeBefore, ret, resp, dl) ==
    [op |-> op, arg |-> arg, side |-> side, msg |-> msg, timeout |-> timeout,
     sizeBefore |-> sizeBefore, ret |-> ret, resp |-> resp, dl |-> dl,
     timedOut |-> FALSE, count |-> 0]
NoCall == Call("none", OneName(<<>>), "", PyNone, 0, 0, PyNone, NoResp, NoDelivery)

\* what is remembered of the call before the last one: a push of a str that
\* completed no blocked pop is remembered with its arguments and its result
Other == [op |-> "other", arg |-> OneName(<<>>), side |-> "", msg |-> PyNone,
          sizeBefore |-> 0, ret |-> PyNone]
Remember(call) ==
    IF call.op = "push" /\ call.msg.t = "str" /\ ~call.dl.done
    THEN [op |-> "push", arg |-> call.arg, side |-> call.side, msg |-> call.msg,
          sizeBefore |-> call.sizeBefore, ret |-> call.ret]
    ELSE Other

RedisInit ==
    /\ decode_responses \in BOOLEAN
    /\ lists = [key \in Keys |-> <<>>]
    /\ blocked = <<>>
    /\ last = NoCall
    /\ prev = Other

\* RedisClient.queue_push behind POST /redis/queues/push
Push(queue_name, message, side) ==
    LET conv == MessageStr(message)
        key == Utf8Encode(queue_name)
        before == Len(lists[key])
    IN  IF ~conv.ok
        THEN /\ last' = Call("push", OneName(queue_name), side, message, 0, before,
                             PyRaise("UnicodeDecodeError"),
                             queue_push_route(queue_name, PyRaise("UnicodeDecodeError")),
                             NoDelivery)
             /\ prev' = Remember(last)
             /\ UNCHANGED <<decode_responses, lists, blocked>>
        ELSE LET pushed == PushSide(lists[key], Utf8Encode(conv.val), PushCommand(side))
                 size == PyInt(Len(pushed))
                 i == FirstWaiter(blocked, key)
             IN  /\ Queued(lists) < MaxQueued
                 /\ IF i = 0
                    THEN /\ lists' = [lists EXCEPT ![key] = pushed]
                         /\ blocked' = blocked
                         /\ last' = Call("push", OneName(queue_name), side, message, 0,
                                         before, size, queue_push_route(queue_name, size),
                                         NoDelivery)
                    ELSE LET w == blocked[i]
                             got == PopSide(pushed, w.cmd)
                             reply == SdkPair(key, got.val, decode_responses)
                         IN  /\ lists' = [lists EXCEPT ![key] = got.rest]
                             /\ blocked' = RemoveAt(blocked, i)
                             /\ last' = Call("push", OneName(queue_name), side, message, 0,
                                             before, size,
                                             queue_push_route(queue_name, size),
                                             Delivery(w, queue_blocking_pop_result(reply)))
                 /\ prev' = Remember(last)
                 /\ UNCHANGED decode_responses

QueuePush ==
    /\ \E q \in QueueNames, m \in Messages, side \in Sides : Push(q, m, side)
    /\ UNCHANGED otherThanRedis

\* RedisClient.queue_pop behind POST /redis/queues/pop
Pop(queue_name, side) ==
    LET key == Utf8Encode(queue_name)
        lst == lists[key]
        got == PopSide(lst, PopCommand(side))
        reply == IF lst = <<>> THEN PyNone ELSE SdkValue(got.val, decode_responses)
        ret == queue_pop_result(reply)
    IN  /\ lists' = [lists EXCEPT ![key] = IF lst = <<>> THEN <<>> ELSE got.rest]
        /\ last' = Call("pop", OneName(queue_name), side, PyNone, 0, Len(lst), ret,
                        queue_pop_route(queue_name, ret), NoDelivery)
        /\ prev' = Remember(last)
        /\ UNCHANGED <<decode_responses, blocked>>

QueuePop ==
    /\ \E q \in QueueNames, side \in Sides : Pop(q, side)
    /\ UNCHANGED otherThanRedis

\* RedisClient.queue_blocking_pop behind POST /redis/queues/blocking-pop: the call
\* returns at once when a named queue holds an element (or the command is
\* refused), and blocks otherwise
BlockingPop(queue_names, timeout, side) ==
    LET names == BlockingPopNames(queue_names)
        keys == [i \in 1..Len(names) |-> Utf8Encode(names[i])]
        cmd == BlockingPopCommand(side)
        j == FirstNonEmpty(lists, keys)
    IN  IF keys = <<>>
        THEN \* BLPOP/BRPOP without a key: the server refuses the command
             /\ last' = Call("bpop", queue_names, side, PyNone, timeout, 0,
                             PyRaise("ResponseError"),
                             queue_blocking_pop_route(PyRaise("ResponseError")),
                             NoDelivery)
             /\ prev' = Remember(last)
             /\ UNCHANGED <<decode_responses, lists, blocked>>
        ELSE IF j > 0
        THEN LET got == PopSide(lists[keys[j]], cmd)
                 reply == SdkPair(keys[j], got.val, decode_responses)
                 ret == queue_blocking_pop_result(reply)
             IN  /\ lists' = [lists EXCEPT ![keys[j]] = got.rest]
                 /\ last' = Call("bpop", queue_names, side, PyNone, timeout,
                                 Len(lists[keys[j]]), ret,
                                 queue_blocking_pop_route(ret), NoDelivery)
                 /\ prev' = Remember(last)
                 /\ UNCHANGED <<decode_responses, blocked>>
        ELSE /\ Len(blocked) < MaxBlocked
             /\ blocked' = Append(blocked,
                                  [keys |-> keys, cmd |-> cmd, requested |-> timeout,
                                   timeout |-> BlockingPopTimeout(timeout),
                                   remaining |-> BlockingPopTimeout(timeout),
                                   arg |-> queue_names])
             /\ UNCHANGED <<decode_responses, lists, last, prev>>

QueueBlockingPop ==
    /\ \E a \in NameArgs, t \in 0..MaxTimeout, side \in Sides : BlockingPop(a, t, side)
    /\ UNCHANGED otherThanRedis

\* one second passes for the blocked clients; a client whose timeout has run
\* out is answered before more time passes
Tick ==
    /\ \E i \in 1..Len(blocked) : blocked[i].timeout > 0
    /\ \A i \in 1..Len(blocked) : blocked[i].timeout > 0 => blocked[i].remaining > 0
    /\ blocked' = [i \in 1..Len(blocked) |->
                     IF blocked[i].timeout > 0
                     THEN [blocked[i] EXCEPT !.remaining = @ - 1]
                     ELSE blocked[i]]
    /\ UNCHANGED <<decode_responses, lists, last, prev>>
    /\ UNCHANGED otherThanRedis

\* the server answers nil to a blocked client whose timeout has run out, and
\* queue_blocking_pop returns
Expire(i) ==
    LET w == blocked[i]
        ret == queue_blocking_pop_result(PyNone)
    IN  /\ w.timeout > 0
        /\ w.remaining = 0
        /\ blocked' = RemoveAt(blocked, i)
        /\ last' = [Call("bpop", w.arg, IF w.cmd = "BLPOP" THEN "left" ELSE "right",
                         PyNone, w.requested, 0, ret, queue_blocking_pop_route(ret),
                         NoDelivery) EXCEPT !.timedOut = TRUE]
        /\ prev' = Remember(last)
        /\ UNCHANGED <<decode_responses, lists>>

BlockingPopTimesOut ==
    /\ \E i \in 1..Len(blocked) : Expire(i)
    /\ UNCHANGED otherThanRedis

\* RedisClient.queue_peek, called directly or behind POST /redis/queues/peek
Peek(queue_name, count, side) ==
    LET messages == queue_peek(lists, decode_responses, queue_name, count, side)
    IN  /\ last' = [Call("peek", OneName(queue_name), side, PyNone, 0,
                         queue_size(lists, queue_name), PyList(messages),
                         IF count \in RouteCounts
                         THEN queue_peek_route(queue_name, messages) ELSE NoResp,
                         NoDelivery) EXCEPT !.count = count]
        /\ prev' = Remember(last)
        /\ UNCHANGED <<decode_responses, lists, blocked>>

QueuePeek ==
    /\ \E q \in QueueNames, c \in Counts, side \in Sides : Peek(q, c, side)
    /\ UNCHANGED otherThanRedis

\* RedisClient.queue_size behind POST /redis/queues/size
Size(queue_name) ==
    LET size == queue_size(lists, queue_name)
    IN  /\ last' = Call("size", OneName(queue_name), "", PyNone, 0, size, PyInt(size),
                        queue_size_route(queue_name, size), NoDelivery)
        /\ prev' = Remember(last)
        /\ UNCHANGED <<decode_responses, lists, blocked>>

QueueSize ==
    /\ \E q \in QueueNames : Size(q)
    /\ UNCHANGED otherThanRedis

\* RedisClient.queue_clear behind POST /redis/queues/clear
Clear(queue_name) ==
    LET key == Utf8Encode(queue_name)
        cleared == queue_clear(Del(lists, key))
    IN  /\ lists' = [lists EXCEPT ![key] = <<>>]
        /\ last' = Call("clear", OneName(queue_name), "", PyNone, 0,
                        queue_size(lists, queue_name), PyBool(cleared),
                        queue_clear_route(queue_name, cleared), NoDelivery)
        /\ prev' = Remember(last)
        /\ UNCHANGED <<decode_responses, blocked>>

QueueClear ==
    /\ \E q \in QueueNames : Clear(q)
    /\ UNCHANGED otherThanRedis

\* RedisClient.queue_exists behind POST /redis/queues/exists
Exists(queue_name) ==
    LET exists == queue_exists(lists, queue_name)
    IN  /\ last' = Call("exists", OneName(queue_name), "", PyNone, 0,
                        queue_size(lists, queue_name), PyBool(exists),
                        queue_exists_route(queue_name, exists), NoDelivery)
        /\ prev' = Remember(last)
        /\ UNCHANGED <<decode_responses, lists, blocked>>

QueueExists ==
    /\ \E q \in QueueNames : Exists(q)
    /\ UNCHANGED otherThanRedis

RedisNext == QueuePush \/ QueuePop \/ QueueBlockingPop \/ Tick \/ BlockingPopTimesOut

\* a blocking pop on one queue that waits without a timeout
QueueBlockingPopForever ==
    /\ \E q \in QueueNames, side \in Sides : BlockingPop(OneName(q), 0, side)
    /\ UNCHANGED otherThanRedis

\* the queue operations, with pops that wait (time does not pass)
QueuesNext ==
    \/ QueuePush \/ QueuePop \/ QueueBlockingPopForever
    \/ QueuePeek \/ QueueSize \/ QueueClear \/ QueueExists


\* ---- the order of one queue ----
\* how many pushes and pops the history keeps
MaxOps == 5
FifoQueue == <<113>>
\* "a", "b"
FifoMessages == {PyStr(<<97>>), PyStr(<<98>>)}

LogInit == oplog = <<>>

LogPush(side, message) == [op |-> "push", side |-> side, msg |-> message.s]
\* a pop that returned a message; pops of the empty queue are not kept
LogPop(side, message) == [op |-> "pop", side |-> side, msg |-> message]

\* queue_push on the queue; a waiting queue_blocking_pop that the push
\* completes returns the message it was handed
FifoPush ==
    /\ Len(oplog) + 2 <= MaxOps
    /\ \E m \in FifoMessages, side \in Sides :
          /\ Push(FifoQueue, m, side)
          /\ oplog' = IF last'.dl.done
                      THEN oplog \o <<LogPush(side, m),
                                     LogPop(IF blocked[1].cmd = "BLPOP" THEN "left"
                                            ELSE "right", last'.dl.ret.s)>>
                      ELSE Append(oplog, LogPush(side, m))
    /\ UNCHANGED otherThanRedisAndLog

\* queue_pop on the queue
FifoPop ==
    /\ Len(oplog) < MaxOps
    /\ \E side \in Sides :
          /\ Pop(FifoQueue, side)
          /\ oplog' = IF last'.ret = PyNone THEN oplog
                      ELSE Append(oplog, LogPop(side, last'.ret.s))
    /\ UNCHANGED otherThanRedisAndLog

\* queue_blocking_pop on the queue, without a timeout: it returns at once
\* when the queue holds a message and waits for a push otherwise
FifoBlockingPop ==
    /\ Len(oplog) < MaxOps
    /\ \E side \in Sides :
          /\ BlockingPop(OneName(FifoQueue), 0, side)
          /\ oplog' = IF lists[Utf8Encode(FifoQueue)] = <<>> THEN oplog
                      ELSE Append(oplog, LogPop(side, last'.ret.s))
    /\ UNCHANGED otherThanRedisAndLog

FifoNext == FifoPush \/ FifoPop \/ FifoBlockingPop

(***************************************************************************)
(* Artemis: _OneShotSender and ArtemisClient.send_message (client.py)      *)
(***************************************************************************)
NumCalls == 2
MaxEvents == 3

CallIds == 1..NumCalls
SendRequests == {[queue |-> "chat.out", body |-> "hello"],
                 [queue |-> "email.out", body |-> "bye"]}
NoRequest == [queue |-> "", body |-> ""]

NoError == "None"
\* what the handlers store in self.error: str(e) of the exception caught.
\* container.connect may raise an exception built without arguments, whose
\* str is empty; the link's send raises with the text of the link's error
ConnectError == "connect failed"
SendError == "send failed"
EmptyError == ""
\* the text of on_rejected ("message rejected: <remote_state>")
RejectedError == "rejected: remote_state"
TransportError == "Transport error: condition"

\* _OneShotSender.__init__
NewSender(url, queue, body) ==
    [url |-> url, queue |-> queue, body |-> body, sent |-> FALSE, error |-> NoError,
     sender |-> FALSE, connection |-> "None"]

ConnectionUrl == "amqp://localhost:61616"

\* self.connection.close() behind "if self.connection"
CloseConnection(s) ==
    IF s.connection = "None" THEN s ELSE [s EXCEPT !.connection = "closed"]

\* each handler: the sender afterwards, whether it called container.stop(),
\* and how many messages it put on the link
on_start(s, outcome, text) ==
    IF outcome = "ok"
    THEN [s |-> [s EXCEPT !.connection = "open", !.sender = TRUE],
          stop |-> FALSE, sends |-> 0]
    ELSE IF outcome = "connect raises"
    THEN [s |-> [s EXCEPT !.error = text], stop |-> TRUE, sends |-> 0]
    ELSE \* create_sender raises: self.connection is already set
         [s |-> [s EXCEPT !.connection = "open", !.error = text],
          stop |-> TRUE, sends |-> 0]

\* mutant: on_sendable that does not look at self.sent
on_sendable_unchecked(s, raised, text) ==
    IF ~raised
    THEN [s |-> [s EXCEPT !.sent = TRUE], stop |-> FALSE, sends |-> 1]
    ELSE [s |-> CloseConnection([s EXCEPT !.error = text]),
          stop |-> TRUE, sends |-> 0]

\* raised: whether event.sender.send raises, and text: str(e) if it does
on_sendable(s, raised, text) ==
    IF s.sent THEN [s |-> s, stop |-> FALSE, sends |-> 0]
    ELSE IF ~raised
    THEN [s |-> [s EXCEPT !.sent = TRUE], stop |-> FALSE, sends |-> 1]
    ELSE [s |-> CloseConnection([s EXCEPT !.error = text]),
          stop |-> TRUE, sends |-> 0]

on_accepted(s) == [s |-> CloseConnection(s), stop |-> TRUE, sends |-> 0]

on_rejected(s) ==
    [s |-> CloseConnection([s EXCEPT !.error = RejectedError]),
     stop |-> TRUE, sends |-> 0]

on_transport_error(s) ==
    [s |-> [s EXCEPT !.error = TransportError], stop |-> TRUE, sends |-> 0]

\* on_connection_closed, and events without a handler (released, settled)
NoHandler(s) == [s |-> s, stop |-> FALSE, sends |-> 0]

StartEvents == {"start ok", "connect raises", "connect raises ()",
                "create_sender raises"}
SendableEvents == {"sendable", "sendable, send raises"}
Events == StartEvents \cup SendableEvents \cup
          {"accepted", "rejected", "released", "transport error", "connection closed"}

\* the handler the container calls for an event
Handle(s, ev) ==
    CASE ev = "start ok" -> on_start(s, "ok", NoError)
      [] ev = "connect raises" -> on_start(s, "connect raises", ConnectError)
      [] ev = "connect raises ()" -> on_start(s, "connect raises", EmptyError)
      [] ev = "create_sender raises" -> on_start(s, "create_sender raises", ConnectError)
      [] ev = "sendable" -> on_sendable(s, FALSE, NoError)
      [] ev = "sendable, send raises" -> on_sendable(s, TRUE, SendError)
      [] ev = "accepted" -> on_accepted(s)
      [] ev = "rejected" -> on_rejected(s)
      [] ev = "transport error" -> on_transport_error(s)
      [] OTHER -> NoHandler(s)

\* mutant: the error of the sender is not looked at
SendResult_ignores_error(s, runRaised) == IF runRaised THEN FALSE ELSE s.sent

\* send_message after the executor call: its return value
SendResult(s, runRaised) ==
    IF runRaised THEN FALSE
    ELSE IF s.error # NoError /\ s.error # EmptyError THEN FALSE
    ELSE s.sent

\* mutant: one sender object, built once, is used by every call
SenderOf_shared(c) == 1

\* the object send_message builds for call c: a new one each call
SenderOf(c) == c

\* mutant: the answer does not depend on the result
send_message_route_always_ok(request, success) ==
    Ok200([queue |-> request.queue, message |-> "Message sent successfully",
           body |-> request.body])

\* routes.py: POST /artemis/send
send_message_route(request, success) ==
    IF ~success
    THEN HTTPException(500, <<"Failed to send message to queue '", request.queue, "'">>)
    ELSE Ok200([queue |-> request.queue, message |-> "Message sent successfully",
                body |-> request.body])

NewCall == [pc |-> "idle", req |-> NoRequest, hist |-> <<>>, runs |-> 0, pending |-> 0,
            sent |-> 0, overlapped |-> FALSE, raised |-> FALSE, ret |-> FALSE,
            resp |-> NoResp]

ArtemisInit ==
    /\ senders = [o \in CallIds |-> NewSender("", "", "")]
    /\ calls = [c \in CallIds |-> NewCall]

Running(c) == calls[c].pc \in {"running", "stopping"}

\* send_message up to the executor call: the sender is built and one
\* Container is started for it in a worker thread
SendMessage ==
    /\ \E c \in CallIds, r \in SendRequests :
          /\ calls[c].pc = "idle"
          /\ senders' = [senders EXCEPT
                           ![SenderOf(c)] = NewSender(ConnectionUrl, r.queue, r.body)]
          /\ calls' = [d \in CallIds |->
                         IF d = c
                         THEN [calls[c] EXCEPT !.pc = "running", !.req = r,
                                               !.runs = @ + 1,
                                               !.overlapped = \E x \in CallIds : Running(x)]
                         ELSE IF Running(d) THEN [calls[d] EXCEPT !.overlapped = TRUE]
                         ELSE calls[d]]
    /\ UNCHANGED otherThanArtemis

\* the container of call c dispatches event ev to the sender
Dispatch(c, ev) ==
    LET h == Handle(senders[SenderOf(c)], ev)
    IN  /\ Running(c)
        /\ Len(calls[c].hist) < MaxEvents
        /\ senders' = [senders EXCEPT ![SenderOf(c)] = h.s]
        /\ calls' = [calls EXCEPT
                       ![c].hist = Append(@, ev),
                       ![c].sent = @ + h.sends,
                       ![c].pending =
                           IF h.sends > 0 THEN 1
                           ELSE IF ev \in {"accepted", "rejected", "released"} THEN 0
                           ELSE @,
                       ![c].pc = IF h.stop \/ ev = "connection closed"
                                 THEN "stopping" ELSE @]
        /\ UNCHANGED otherThanArtemis

\* the link exists once on_start has created connection and sender
Started(c) == calls[c].hist # <<>> /\ calls[c].hist[1] = "start ok"

OnStart ==
    \E c \in CallIds, ev \in StartEvents : calls[c].hist = <<>> /\ Dispatch(c, ev)

OnSendable ==
    \E c \in CallIds, ev \in SendableEvents : Started(c) /\ Dispatch(c, ev)

\* the broker settles the delivery: accepted, rejected or released
OnAccepted ==
    \E c \in CallIds : Started(c) /\ calls[c].pending > 0 /\ Dispatch(c, "accepted")

OnRejected ==
    \E c \in CallIds : Started(c) /\ calls[c].pending > 0 /\ Dispatch(c, "rejected")

OnReleased ==
    \E c \in CallIds : Started(c) /\ calls[c].pending > 0 /\ Dispatch(c, "released")

OnTransportError ==
    \E c \in CallIds : Started(c) /\ Dispatch(c, "transport error")

OnConnectionClosed ==
    \E c \in CallIds :
        Started(c) /\ calls[c].pc = "running" /\ Dispatch(c, "connection closed")

\* Container.run() returns; send_message looks at the sender and returns
RunReturns ==
    /\ \E c \in CallIds :
          LET success == SendResult(senders[SenderOf(c)], FALSE)
          IN  /\ calls[c].pc = "stopping"
              /\ calls' = [calls EXCEPT
                             ![c].pc = "returned", ![c].ret = success,
                             ![c].resp = send_message_route(calls[c].req, success)]
    /\ UNCHANGED senders
    /\ UNCHANGED otherThanArtemis

\* Container.run() raises; send_message catches the exception
RunRaises ==
    /\ \E c \in CallIds :
          LET success == SendResult(senders[SenderOf(c)], TRUE)
          IN  /\ Running(c)
              /\ calls' = [calls EXCEPT
                             ![c].pc = "returned", ![c].raised = TRUE,
                             ![c].ret = success,
                             ![c].resp = send_message_route(calls[c].req, success)]
    /\ UNCHANGED senders
    /\ UNCHANGED otherThanArtemis

\* the variables of the Redis package while it is not used
RedisIdle ==
    /\ decode_responses = FALSE
    /\ lists = [key \in Keys |-> <<>>]
    /\ blocked = <<>>
    /\ last = NoCall
    /\ prev = Other

ArtemisNext ==
    \/ SendMessage
    \/ OnStart
    \/ OnSendable
    \/ OnAccepted
    \/ OnRejected
    \/ OnReleased
    \/ OnTransportError
    \/ OnConnectionClosed
    \/ RunReturns
    \/ RunRaises

(***************************************************************************)
(* S3: base64 as the upload route and its clients use it.  A character of  *)
(* the request's data is its index 0..63 in the base64 alphabet, B64Pad    *)
(* for "=", B64Other for an ASCII character outside the alphabet, NonAscii *)
(* for any other character.                                                *)
(***************************************************************************)
B64Pad == 64
B64Other == 65
NonAscii == 66

\* base64.b64encode: what a client puts into "data" for the bytes bs
RECURSIVE B64Encode(_)
B64Encode(bs) ==
    IF Len(bs) = 0 THEN <<>>
    ELSE IF Len(bs) = 1
    THEN <<bs[1] \div 4, (bs[1] % 4) * 16, B64Pad, B64Pad>>
    ELSE IF Len(bs) = 2
    THEN <<bs[1] \div 4, (bs[1] % 4) * 16 + bs[2] \div 16, (bs[2] % 16) * 4, B64Pad>>
    ELSE <<bs[1] \div 4, (bs[1] % 4) * 16 + bs[2] \div 16,
           (bs[2] % 16) * 4 + bs[3] \div 64, bs[3] % 64>>
         \o B64Encode(SubSeq(bs, 4, Len(bs)))

\* binascii.a2b_base64 without strict mode: characters outside the alphabet
\* are skipped, a complete padding ends the input, an incomplete last
\* quantum is an error.  quad_pos, leftchar and pads are its loop variables.
RECURSIVE A2bBase64(_, _, _, _, _)
A2bBase64(text, quad_pos, leftchar, pads, out) ==
    IF text = <<>>
    THEN [ok |-> quad_pos = 0, val |-> out]
    ELSE LET ch == Head(text)
             rest == Tail(text)
         IN  IF ch = B64Pad
             THEN IF quad_pos >= 2 /\ quad_pos + pads + 1 >= 4
                  THEN [ok |-> TRUE, val |-> out]
                  ELSE A2bBase64(rest, quad_pos, leftchar,
                                 IF quad_pos >= 2 THEN pads + 1 ELSE pads, out)
             ELSE IF ch >= 64
             THEN A2bBase64(rest, quad_pos, leftchar, pads, out)
             ELSE CASE quad_pos = 0 -> A2bBase64(rest, 1, ch, 0, out)
                    [] quad_pos = 1 ->
                         A2bBase64(rest, 2, ch % 16, 0,
                                   Append(out, leftchar * 4 + ch \div 16))
                    [] quad_pos = 2 ->
                         A2bBase64(rest, 3, ch % 4, 0,
                                   Append(out, leftchar * 16 + ch \div 4))
                    [] OTHER ->
                         A2bBase64(rest, 0, 0, 0, Append(out, leftchar * 64 + ch))

\* base64.b64decode(s) for a str s: a non-ASCII character raises ValueError,
\* the rest is a2b_base64's
B64Decode(text) ==
    IF \E i \in 1..Len(text) : text[i] = NonAscii
    THEN [ok |-> FALSE, val |-> <<>>]
    ELSE A2bBase64(text, 0, 0, 0, <<>>)

(***************************************************************************)
(* S3: the store, S3Client.upload_object / download_object and the routes  *)
(***************************************************************************)
MaxBody == 2

ByteValues == {77, 255}
Payloads == UNION {[1..n -> ByteValues] : n \in 0..MaxBody}

S3Buckets == {"test-bucket-s3"}
BucketNames == S3Buckets \cup {"no-such-bucket"}
\* an object key is its "/"-separated segments
ObjectKeys == {<<"test-file.txt">>, <<"dir", "a.bin">>}

\* the local files upload_object can be pointed at: path -> content
LocalFiles == [path \in {<<47, 97>>} |-> <<77, 0, 255>>]
\* an open binary file: its content and the position read() starts from
BinaryIO(content, pos) == [t |-> "BinaryIO", n |-> pos, s |-> content, k |-> <<>>, l |-> <<>>]

\* data: Union[bytes, BinaryIO, str]
UploadData ==
    {PyBytes(bs) : bs \in Payloads}
    \cup {PyStr(<<47, 97>>), PyStr(<<47, 98>>)}
    \cup {BinaryIO(<<77, 255>>, pos) : pos \in 0..1}

\* the "data" strings of upload requests: encoded payloads, and strings that
\* no encoder produces
UploadTexts ==
    {B64Encode(bs) : bs \in Payloads}
    \cup {<<19>>, <<19, 16>>, <<19, 16, B64Pad>>, <<19, B64Other, 16, B64Pad, B64Pad>>,
          <<19, 16, B64Pad, B64Pad, 19, 16, B64Pad, B64Pad>>, <<NonAscii>>}

\* s3.put_object
put_object(objs, bucket, key, body) ==
    IF bucket \notin S3Buckets
    THEN [objects |-> objs, ret |-> PyRaise("NoSuchBucket")]
    ELSE [objects |-> [objs EXCEPT ![<<bucket, key>>] = body], ret |-> PyNone]

\* s3.get_object and response["Body"].read()
get_object(objs, bucket, key) ==
    IF bucket \notin S3Buckets THEN PyRaise("NoSuchBucket")
    ELSE IF objs[<<bucket, key>>] = PyNone THEN PyRaise("NoSuchKey")
    ELSE objs[<<bucket, key>>]

\* upload_object: the bytes handed to put_object
upload_body(data) ==
    IF data.t = "str"
    THEN IF data.s \in DOMAIN LocalFiles
         THEN PyBytes(LocalFiles[data.s]) ELSE PyRaise("FileNotFoundError")
    ELSE IF data.t = "BinaryIO" THEN PyBytes(SubSeq(data.s, data.n + 1, Len(data.s)))
    ELSE data

UploadInfo(bucket, key) ==
    [bucket_name |-> bucket, object_key |-> key,
     message |-> "Object uploaded successfully"]
NoInfo == [bucket_name |-> "", object_key |-> <<>>, message |-> ""]

\* S3Client.upload_object: the store afterwards, the exception if one leaves
\* the call, the dict it returns
upload_object(objs, bucket, key, data) ==
    LET body == upload_body(data)
        put == put_object(objs, bucket, key, body)
    IN  IF Raised(body) THEN [objects |-> objs, ret |-> body, info |-> NoInfo]
        ELSE IF Raised(put.ret) THEN [objects |-> objs, ret |-> put.ret, info |-> NoInfo]
        ELSE [objects |-> put.objects, ret |-> PyNone, info |-> UploadInfo(bucket, key)]

\* S3Client.download_object
download_object(objs, bucket, key) == get_object(objs, bucket, key)

\* an answer of an S3 route: JSON (info) or a Response with a content
S3Answer(status_code, detail, info, content, filename) ==
    [status |-> status_code, detail |-> detail, info |-> info, content |-> content,
     filename |-> filename,
     media_type |-> IF content.t = "bytes" THEN "application/octet-stream"
                    ELSE "application/json"]
NoAnswer == S3Answer(0, "", NoInfo, PyNone, "")

\* mutant: the request's data is uploaded as it came, not decoded
upload_route_data_undecoded(text) == [ok |-> TRUE, val |-> text]

\* routes.py, upload_object: base64.b64decode(request.data) in its try block
upload_route_data(text) == B64Decode(text)

\* routes.py: POST /s3/objects/upload
upload_object_route(objs, bucket, key, text) ==
    LET data == upload_route_data(text)
        up == upload_object(objs, bucket, key, PyBytes(data.val))
    IN  IF ~data.ok
        THEN [objects |-> objs, ret |-> PyNone,
              resp |-> S3Answer(400, "Invalid base64 data: ...", NoInfo, PyNone, "")]
        ELSE IF Raised(up.ret)
        THEN [objects |-> objs, ret |-> up.ret,
              resp |-> S3Answer(500, "Internal Server Error", NoInfo, PyNone, "")]
        ELSE [objects |-> up.objects, ret |-> up.ret,
              resp |-> S3Answer(200, "", up.info, PyNone, "")]

\* mutant: only a missing key is answered with 404
download_object_response_key_only(data, key) ==
    IF data.t = "NoSuchKey"
    THEN S3Answer(404, "Object not found: ...", NoInfo, PyNone, "")
    ELSE IF Raised(data)
    THEN S3Answer(500, "Internal Server Error", NoInfo, PyNone, "")
    ELSE S3Answer(200, "", NoInfo, data, key[Len(key)])

\* routes.py, download_object: what it makes of the outcome of
\* client.download_object, "except Exception" or the Response
download_object_response(data, key) ==
    IF Raised(data)
    THEN S3Answer(404, "Object not found: ...", NoInfo, PyNone, "")
    ELSE S3Answer(200, "", NoInfo, data, key[Len(key)])

\* routes.py: POST /s3/objects/download
download_object_route(objs, bucket, key) ==
    download_object_response(download_object(objs, bucket, key), key)

S3Call(op, bucket, key, data, text, ret, resp) ==
    [op |-> op, bucket |-> bucket, key |-> key, data |-> data, text |-> text,
     ret |-> ret, resp |-> resp]
NoS3Call == S3Call("none", "", <<>>, PyNone, <<>>, PyNone, NoAnswer)

S3Init ==
    /\ objects = [o \in BucketNames \X ObjectKeys |-> PyNone]
    /\ intended = [o \in BucketNames \X ObjectKeys |-> PyNone]
    /\ s3call = NoS3Call

\* a direct call of S3Client.upload_object, as the client tests make it; the
\* bytes the caller means are those of the bytes object, of the file at the
\* path, or the unread rest of the file object
UploadObject ==
    /\ \E bucket \in BucketNames, key \in ObjectKeys, data \in UploadData :
          LET up == upload_object(objects, bucket, key, data)
              meant == IF data.t = "str" THEN LocalFiles[data.s]
                       ELSE IF data.t = "BinaryIO"
                       THEN SubSeq(data.s, data.n + 1, Len(data.s))
                       ELSE data.s
          IN  /\ objects' = up.objects
              /\ intended' = IF Raised(up.ret) THEN intended
                             ELSE [intended EXCEPT ![<<bucket, key>>] = PyBytes(meant)]
              /\ s3call' = S3Call("upload", bucket, key, data, <<>>, up.ret, NoAnswer)
    /\ UNCHANGED otherThanS3

\* POST /s3/objects/upload with the base64 of the bytes a client means
UploadObjectRoute ==
    /\ \E bucket \in BucketNames, key \in ObjectKeys, bs \in Payloads :
          LET text == B64Encode(bs)
              r == upload_object_route(objects, bucket, key, text)
          IN  /\ objects' = r.objects
              /\ intended' = IF r.resp.status = 200
                             THEN [intended EXCEPT ![<<bucket, key>>] = PyBytes(bs)]
                             ELSE intended
              /\ s3call' = S3Call("upload route", bucket, key, PyNone, text, r.ret, r.resp)
    /\ UNCHANGED otherThanS3

\* POST /s3/objects/upload with a data string that is not the encoding of
\* anything: what is meant is what base64 decoding makes of it
UploadObjectRouteRaw ==
    /\ \E bucket \in BucketNames, key \in ObjectKeys,
          text \in UploadTexts \ {B64Encode(bs) : bs \in Payloads} :
          LET r == upload_object_route(objects, bucket, key, text)
          IN  /\ objects' = r.objects
              /\ intended' = IF r.resp.status = 200
                             THEN [intended EXCEPT
                                     ![<<bucket, key>>] = PyBytes(B64Decode(text).val)]
                             ELSE intended
              /\ s3call' = S3Call("upload route", bucket, key, PyNone, text, r.ret, r.resp)
    /\ UNCHANGED otherThanS3

\* POST /s3/objects/download, and the download_object call it makes
DownloadObject ==
    /\ \E bucket \in BucketNames, key \in ObjectKeys :
          s3call' = S3Call("download", bucket, key, PyNone, <<>>,
                           download_object(objects, bucket, key),
                           download_object_route(objects, bucket, key))
    /\ UNCHANGED <<objects, intended>>
    /\ UNCHANGED otherThanS3

S3Next == UploadObject \/ UploadObjectRoute \/ UploadObjectRouteRaw \/ DownloadObject

(***************************************************************************)
(* S3: delete_object, object_exists, bucket_exists, get_object_metadata    *)
(* and the endpoint being out of reach                                     *)
(***************************************************************************)
\* "async with self._session.client(...) as s3" and the call made on s3: the
\* call's outcome when the endpoint is reachable, a connection error otherwise
S3Session(up, outcome) == IF up THEN outcome ELSE PyRaise("EndpointConnectionError")

\* s3.head_object: ContentLength, ClientError (404) for a missing key or bucket
head_object(objs, bucket, key) ==
    IF bucket \notin S3Buckets \/ objs[<<bucket, key>>] = PyNone
    THEN PyRaise("ClientError")
    ELSE PyInt(Len(objs[<<bucket, key>>].s))

\* s3.head_bucket
head_bucket(bucket) ==
    IF bucket \notin S3Buckets THEN PyRaise("ClientError") ELSE PyNone

\* s3.delete_object: a missing key is deleted without an error
s3_delete_object(objs, bucket, key) ==
    IF bucket \notin S3Buckets
    THEN [objects |-> objs, ret |-> PyRaise("NoSuchBucket")]
    ELSE [objects |-> [objs EXCEPT ![<<bucket, key>>] = PyNone], ret |-> PyNone]

\* history: the last successful write to a key was a delete_object
Deleted == [t |-> "deleted", n |-> 0, s |-> <<>>, k |-> <<>>, l |-> <<>>]

DeleteInfo(bucket, key) ==
    [bucket_name |-> bucket, object_key |-> key,
     message |-> "Object deleted successfully"]

\* S3Client.delete_object
delete_object(objs, up, bucket, key) ==
    LET del == s3_delete_object(objs, bucket, key)
        ret == S3Session(up, del.ret)
    IN  IF Raised(ret) THEN [objects |-> objs, ret |-> ret, info |-> NoInfo]
        ELSE [objects |-> del.objects, ret |-> PyNone, info |-> DeleteInfo(bucket, key)]

\* mutant: the exception of head_object leaves object_exists
object_exists_uncaught(objs, up, bucket, key) ==
    LET head == S3Session(up, head_object(objs, bucket, key))
    IN  IF Raised(head) THEN head ELSE PyBool(TRUE)

\* S3Client.object_exists
object_exists(objs, up, bucket, key) ==
    LET head == S3Session(up, head_object(objs, bucket, key))
    IN  IF Raised(head) THEN PyBool(FALSE) ELSE PyBool(TRUE)

\* S3Client.bucket_exists
bucket_exists(up, bucket) ==
    LET head == S3Session(up, head_bucket(bucket))
    IN  IF Raised(head) THEN PyBool(FALSE) ELSE PyBool(TRUE)

\* S3Client.get_object_metadata: the "size" of the dict it returns
get_object_metadata(objs, up, bucket, key) ==
    S3Session(up, head_object(objs, bucket, key))

\* routes.py: POST /s3/objects/metadata
get_object_metadata_route(meta) ==
    IF Raised(meta)
    THEN S3Answer(404, "Object not found: ...", NoInfo, PyNone, "")
    ELSE S3Answer(200, "", NoInfo, meta, "")

\* a call recorded with the outcome of the SDK call it made
ObjectCall(op, bucket, key, up, sdk, ret, resp) ==
    [op |-> op, bucket |-> bucket, key |-> key, data |-> PyNone, text |-> <<>>,
     ret |-> ret, resp |-> resp, up |-> up, sdk |-> sdk]

DeleteObject ==
    /\ \E bucket \in BucketNames, key \in ObjectKeys, up \in BOOLEAN :
          LET del == delete_object(objects, up, bucket, key)
          IN  /\ objects' = del.objects
              /\ intended' = IF Raised(del.ret) THEN intended
                             ELSE [intended EXCEPT ![<<bucket, key>>] = Deleted]
              /\ s3call' = ObjectCall("delete", bucket, key, up,
                                      S3Session(up, s3_delete_object(objects, bucket, key).ret),
                                      del.ret, NoAnswer)
    /\ UNCHANGED otherThanS3

ObjectExists ==
    /\ \E bucket \in BucketNames, key \in ObjectKeys, up \in BOOLEAN :
          s3call' = ObjectCall("exists", bucket, key, up,
                               S3Session(up, head_object(objects, bucket, key)),
                               object_exists(objects, up, bucket, key), NoAnswer)
    /\ UNCHANGED <<objects, intended>>
    /\ UNCHANGED otherThanS3

BucketExists ==
    /\ \E bucket \in BucketNames, up \in BOOLEAN :
          s3call' = ObjectCall("bucket exists", bucket, <<>>, up,
                               S3Session(up, head_bucket(bucket)),
                               bucket_exists(up, bucket), NoAnswer)
    /\ UNCHANGED <<objects, intended>>
    /\ UNCHANGED otherThanS3

\* POST /s3/objects/download
DownloadObjectRoute ==
    /\ \E bucket \in BucketNames, key \in ObjectKeys, up \in BOOLEAN :
          LET data == S3Session(up, download_object(objects, bucket, key))
          IN  s3call' = ObjectCall("download route", bucket, key, up, data, data,
                                   download_object_response(data, key))
    /\ UNCHANGED <<objects, intended>>
    /\ UNCHANGED otherThanS3

\* POST /s3/objects/metadata
GetObjectMetadataRoute ==
    /\ \E bucket \in BucketNames, key \in ObjectKeys, up \in BOOLEAN :
          LET meta == get_object_metadata(objects, up, bucket, key)
          IN  s3call' = ObjectCall("metadata route", bucket, key, up, meta, meta,
                                   get_object_metadata_route(meta))
    /\ UNCHANGED <<objects, intended>>
    /\ UNCHANGED otherThanS3

ObjectsNext ==
    UploadObject \/ DeleteObject \/ ObjectExists \/ BucketExists
    \/ DownloadObjectRoute \/ GetObjectMetadataRoute

(***************************************************************************)
(* sync_dir: a bucket, the local file system and os.path                   *)
(***************************************************************************)
\* the keys of the bucket in the order list_objects_v2 returns them (by the
\* bytes of the key); a key is its "/"-separated segments, so a key ending
\* with "/" has "" as its last segment
ListOrder ==
    << <<"root-file.txt">>,
       <<"sync-test-old", "x.txt">>,
       <<"sync-test", "file1.txt">>,
       <<"sync-test", "subdir">>,
       <<"sync-test", "subdir", "">>,
       <<"sync-test", "subdir", "deep", "f.txt">>,
       <<"sync-test", "subdir", "file3.txt">> >>
SyncKeys == {ListOrder[i] : i \in DOMAIN ListOrder}
SyncBodies == {<<77>>, <<255, 77>>}
\* s3_prefix: "" and "sync-test"
SyncPrefixes == {<<>>, <<"sync-test">>}
\* tempfile.TemporaryDirectory()
LocalPath == <<"tmp">>
\* how many downloads of one sync_dir call fail
MaxFailing == 1
\* how many objects the bucket holds
MaxObjects == 3

Dir == [t |-> "dir", n |-> 0, s |-> <<>>, k |-> <<>>, l |-> <<>>]
Front(path) == SubSeq(path, 1, Len(path) - 1)

\* os.path.normpath
RECURSIVE ResolveFrom(_, _)
ResolveFrom(stack, rest) ==
    IF rest = <<>> THEN stack
    ELSE IF Head(rest) \in {"", "."} THEN ResolveFrom(stack, Tail(rest))
    ELSE IF Head(rest) = ".."
    THEN ResolveFrom(IF stack = <<>> THEN <<>> ELSE Front(stack), Tail(rest))
    ELSE ResolveFrom(Append(stack, Head(rest)), Tail(rest))
normpath(path) == ResolveFrom(<<>>, path)

RECURSIVE CommonLen(_, _)
CommonLen(a, b) ==
    IF a = <<>> \/ b = <<>> \/ Head(a) # Head(b) THEN 0
    ELSE 1 + CommonLen(Tail(a), Tail(b))

\* os.path.relpath(path, start)
relpath(path, start) ==
    LET start_list == normpath(start)
        path_list == normpath(path)
        i == CommonLen(start_list, path_list)
        rel_list == [j \in 1..(Len(start_list) - i) |-> ".."]
                    \o SubSeq(path_list, i + 1, Len(path_list))
    IN  IF rel_list = <<>> THEN <<".">> ELSE rel_list

\* str.startswith of a key and a prefix of one segment
SegmentsStartingWith(segment) ==
    IF segment = "sync-test" THEN {"sync-test", "sync-test-old"} ELSE {segment}
HasPrefix(key, s3_prefix) ==
    s3_prefix = <<>> \/ key[1] \in SegmentsStartingWith(s3_prefix[1])

\* os.path.isfile
isfile(fs, path) ==
    LET r == normpath(path) IN r \in DOMAIN fs /\ fs[r].t = "bytes"
isdir(fs, path) ==
    LET r == normpath(path) IN r = <<>> \/ (r \in DOMAIN fs /\ fs[r] = Dir)
\* os.remove
remove(fs, path) == [q \in DOMAIN fs \ {normpath(path)} |-> fs[q]]

\* os.makedirs(path, exist_ok=True): the error when the path or one of its
\* parents is a file
makedirs(fs, path) ==
    LET r == normpath(path)
        parents == {SubSeq(r, 1, n) : n \in 1..Len(r)}
    IN  IF \E q \in parents : isfile(fs, q)
        THEN [fs |-> fs, ret |-> PyRaise("OSError")]
        ELSE [fs |-> [q \in DOMAIN fs \cup parents |->
                        IF q \in parents THEN Dir ELSE fs[q]],
              ret |-> PyNone]

\* open(file_path, "wb") and the writes of the chunks
write_file(fs, file_path, body) ==
    LET r == normpath(file_path)
    IN  IF isdir(fs, r) \/ ~isdir(fs, Front(r))
        THEN [fs |-> fs, ret |-> PyRaise("OSError")]
        ELSE [fs |-> [q \in DOMAIN fs \cup {r} |-> IF q = r THEN body ELSE fs[q]],
              ret |-> PyNone]

\* S3Client.get_stream: get_object fails for the keys in `failing`
get_stream(store, failing, key) ==
    IF key \in failing THEN PyRaise("EndpointConnectionError")
    ELSE IF store[key] = PyNone THEN PyRaise("NoSuchKey")
    ELSE store[key]

\* S3Client.download_object_to_file
download_object_to_file(fs, store, failing, key, file_path) ==
    LET dir_path == Front(file_path)
        made == IF dir_path # <<>> THEN makedirs(fs, dir_path)
                ELSE [fs |-> fs, ret |-> PyNone]
        stream == get_stream(store, failing, key)
    IN  IF Raised(made.ret) THEN made
        ELSE IF Raised(stream) THEN [fs |-> made.fs, ret |-> stream]
        ELSE write_file(made.fs, file_path, stream)

\* S3Client.list_objects: the keys of its result, or the exception
list_objects(store, up, s3_prefix) ==
    [ret |-> S3Session(up, PyNone),
     keys |-> SelectSeq(ListOrder,
                        LAMBDA key : store[key] # PyNone /\ HasPrefix(key, s3_prefix))]

\* sync_dir: "if local_file_dir and os.path.isfile(local_file_dir)"
StaleFile(fs, local_file_dir) == local_file_dir # <<>> /\ isfile(fs, local_file_dir)

\* sync_dir: the body of "for obj in objects"
SyncObject(fs, store, failing, s3_prefix, local_path, s3_key) ==
    LET relative_path == IF s3_prefix # <<>> THEN relpath(s3_key, s3_prefix) ELSE s3_key
        local_file_path == local_path \o relative_path
        local_file_dir == Front(local_file_path)
        removed == IF StaleFile(fs, local_file_dir) THEN remove(fs, local_file_dir) ELSE fs
        made == IF local_file_dir # <<>> THEN makedirs(removed, local_file_dir)
                ELSE [fs |-> removed, ret |-> PyNone]
        down == IF s3_key[Len(s3_key)] # ""
                THEN download_object_to_file(made.fs, store, failing, s3_key, local_file_path)
                ELSE [fs |-> made.fs, ret |-> PyNone]
    IN  IF Raised(made.ret) THEN made
        ELSE [fs |-> down.fs, ret |-> PyNone,
              failed |-> IF Raised(down.ret) THEN <<s3_key>> ELSE <<>>]

RECURSIVE SyncObjects(_, _, _, _, _, _)
SyncObjects(fs, store, failing, s3_prefix, local_path, keys) ==
    IF keys = <<>> THEN [fs |-> fs, ret |-> PyNone, failed |-> <<>>]
    ELSE LET one == SyncObject(fs, store, failing, s3_prefix, local_path, Head(keys))
         IN  IF Raised(one.ret) THEN [fs |-> one.fs, ret |-> one.ret, failed |-> <<>>]
             ELSE LET rest == SyncObjects(one.fs, store, failing, s3_prefix, local_path,
                                          Tail(keys))
                  IN  [rest EXCEPT !.failed = one.failed \o @]

\* utils.py: sync_dir; `failed` are the keys whose "Failed" line it logged
sync_dir(fs, store, up, failing, s3_prefix, local_path) ==
    LET objs == list_objects(store, up, s3_prefix)
    IN  IF Raised(objs.ret) THEN [fs |-> fs, ret |-> objs.ret, failed |-> <<>>]
        ELSE SyncObjects(fs, store, failing, s3_prefix, local_path, objs.keys)

EmptyTmpDir == [q \in {LocalPath} |-> Dir]
SyncCall(op, s3_prefix, up, failing, listed, failed, ret) ==
    [op |-> op, s3_prefix |-> s3_prefix, up |-> up, failing |-> failing,
     listed |-> listed, failed |-> failed, ret |-> ret]
NoSyncCall == SyncCall("none", <<>>, TRUE, {}, <<>>, <<>>, PyNone)

SyncInit ==
    /\ remote = [key \in SyncKeys |-> PyNone]
    /\ local_fs = EmptyTmpDir
    /\ synccall = NoSyncCall

\* the uploads that come before a sync_dir; the temporary directory of the
\* sync_dir before is gone
SyncUpload ==
    /\ \E key \in SyncKeys, body \in SyncBodies :
          /\ Cardinality({k \in SyncKeys : remote[k] # PyNone} \cup {key}) <= MaxObjects
          /\ remote' = [remote EXCEPT ![key] = PyBytes(body)]
    /\ local_fs' = EmptyTmpDir
    /\ synccall' = NoSyncCall
    /\ UNCHANGED otherThanSync

\* sync_dir into a new temporary directory
SyncDir ==
    /\ \E s3_prefix \in SyncPrefixes, up \in BOOLEAN,
          failing \in {ks \in SUBSET SyncKeys : Cardinality(ks) <= MaxFailing} :
          LET r == sync_dir(EmptyTmpDir, remote, up, failing, s3_prefix, LocalPath)
          IN  /\ up \/ failing = {}
              /\ local_fs' = r.fs
              /\ synccall' = SyncCall("sync_dir", s3_prefix, up, failing,
                                      IF up THEN list_objects(remote, up, s3_prefix).keys
                                      ELSE <<>>,
                                      r.failed, r.ret)
    /\ UNCHANGED remote
    /\ UNCHANGED otherThanSync

SyncNext == SyncUpload \/ SyncDir

(***************************************************************************)
(* get_stream and download_object_to_file, step by step: the client        *)
(* context, the body it hands out and the reads of the body                *)
(***************************************************************************)
\* the chunk size of download_object_to_file, 8192 in the code, scaled to the
\* bodies of the model
ChunkSize == 2
StreamBodies == {<<77>>, <<77, 255>>, <<77, 255, 0>>, <<0, 77, 0, 255>>}
\* the object asked for: its body, or None for a missing object
StreamObjects == {PyBytes(bs) : bs \in StreamBodies} \cup {PyNone}

Transfer(op, pc, object, client, arrived, pos, chunks, file, made, late_reads, ret) ==
    [op |-> op, pc |-> pc, object |-> object, client |-> client, arrived |-> arrived,
     pos |-> pos, chunks |-> chunks, file |-> file, made |-> made,
     late_reads |-> late_reads, ret |-> ret]
NoTransfer == Transfer("none", "done", PyNone, "none", 0, 0, <<>>, PyNone, FALSE, 0, PyNone)

\* "async with self._session.client(...) as s3": the call enters the context
EnterClient(op, object, made) ==
    Transfer(op, "client", object, "open", 0, 0, <<>>, PyNone, made, 0, PyNone)

\* get_stream: "response = await s3.get_object(...)"; for a missing object the
\* exception leaves the context and the call
StreamGetObject(tr) ==
    IF tr.object = PyNone
    THEN [tr EXCEPT !.pc = "done", !.client = "closed", !.ret = PyRaise("NoSuchKey")]
    ELSE [tr EXCEPT !.pc = "body"]

\* get_stream: 'return response["Body"]' inside the "async with": the context
\* is left, which closes the client, and the body goes to the caller; `arrived`
\* bytes of the body had reached the reader by then
StreamReturnBody(tr, arrived) ==
    [tr EXCEPT !.pc = "returned", !.client = "closed", !.arrived = arrived]

\* stream.read(n): the outcomes.  With the whole body arrived the next chunk
\* (empty at the end); otherwise the connection is gone with the client: a
\* chunk of what had arrived, or the payload error
StreamRead(tr, n) ==
    LET body == tr.object.s
        upto(limit) == PyBytes(SubSeq(body, tr.pos + 1,
                                      IF tr.pos + n < limit THEN tr.pos + n ELSE limit))
    IN  IF tr.client = "open" \/ tr.arrived = Len(body)
        THEN {upto(Len(body))}
        ELSE {PyRaise("ConnectionError")}
             \cup (IF tr.pos < tr.arrived THEN {upto(tr.arrived)} ELSE {})

\* one turn of "while True: chunk = await stream.read(...); if not chunk: break"
\* with the chunk written to the file (download_object_to_file) or kept by the
\* caller (get_stream)
AfterRead(tr, chunk) ==
    LET late == IF tr.client = "closed" THEN tr.late_reads + 1 ELSE tr.late_reads
    IN  IF Raised(chunk)
        THEN [tr EXCEPT !.pc = "done", !.ret = chunk, !.late_reads = late]
        ELSE IF chunk.s = <<>>
        THEN [tr EXCEPT !.pc = "done", !.late_reads = late]
        ELSE [tr EXCEPT !.pos = @ + Len(chunk.s),
                        !.chunks = Append(@, chunk.s),
                        !.file = IF tr.op = "download_object_to_file"
                                 THEN PyBytes(@.s \o chunk.s) ELSE @,
                        !.late_reads = late]

StreamInit == transfer = NoTransfer

\* a caller of get_stream, as TestGetStream
GetStream ==
    /\ transfer.pc = "done"
    /\ \E object \in StreamObjects : transfer' = EnterClient("get_stream", object, FALSE)
    /\ UNCHANGED otherThanStream

\* download_object_to_file: os.makedirs(dir_path, exist_ok=True), then the
\* get_stream call
DownloadObjectToFile ==
    /\ transfer.pc = "done"
    /\ \E object \in StreamObjects :
          transfer' = EnterClient("download_object_to_file", object, TRUE)
    /\ UNCHANGED otherThanStream

GetObject ==
    /\ transfer.pc = "client"
    /\ transfer' = StreamGetObject(transfer)
    /\ UNCHANGED otherThanStream

ReturnBody ==
    /\ transfer.pc = "body"
    /\ \E arrived \in 0..Len(transfer.object.s) :
          transfer' = StreamReturnBody(transfer, arrived)
    /\ UNCHANGED otherThanStream

\* download_object_to_file: with open(file_path, "wb") as f
OpenFile ==
    /\ transfer.op = "download_object_to_file" /\ transfer.pc = "returned"
    /\ transfer' = [transfer EXCEPT !.pc = "reading", !.file = PyBytes(<<>>)]
    /\ UNCHANGED otherThanStream

ReadChunk ==
    /\ \/ transfer.op = "get_stream" /\ transfer.pc = "returned"
       \/ transfer.op = "download_object_to_file" /\ transfer.pc = "reading"
    /\ \E chunk \in StreamRead(transfer, ChunkSize) : transfer' = AfterRead(transfer, chunk)
    /\ UNCHANGED otherThanStream

StreamNext ==
    GetStream \/ DownloadObjectToFile \/ GetObject \/ ReturnBody \/ OpenFile \/ ReadChunk

(***************************************************************************)
(* Lifespans: artemis_lifespan, opensearch_lifespan, redis_lifespan,       *)
(* s3_lifespan, each the lifespan of its package's application             *)
(***************************************************************************)
MaxRequests == 2
\* the most routes a router has
MaxRoutes == 13

Packages == {"artemis", "opensearch", "redis", "s3"}

\* the settings module the OpenSearch lifespan imports
\* (my_opensearch_client.endpoint.base_settings): the attributes its
\* lifespan reads
OpenSearchSettingsAttributes ==
    {"opensearch_hosts", "opensearch_username", "opensearch_password",
     "opensearch_timeout", "opensearch_max_retries", "opensearch_retry_on_timeout",
     "opensearch_verify_certs", "hosts_list"}

\* the attributes of the object that the get_settings imported by the
\* package's lifespan returns: the fields of the settings class (an alias
\* is not an attribute) and its properties
SettingsAttributes(p) ==
    CASE p = "artemis" -> {"host", "port", "username", "password", "protocol"}
      [] p = "redis" ->
           {"host", "port", "db", "password", "decode_responses", "socket_timeout",
            "socket_connect_timeout", "retry_on_timeout", "health_check_interval"}
      [] p = "s3" ->
           {"aws_access_key_id", "aws_secret_access_key", "aws_region",
            "aws_endpoint_url", "aws_use_ssl", "aws_verify"}
      [] OTHER -> OpenSearchSettingsAttributes

\* the attributes of the settings object that the startup part reads
StartupReads(p) ==
    CASE p = "artemis" -> {"host", "port", "username", "password", "protocol"}
      [] p = "redis" ->
           {"redis_host", "redis_port", "redis_db", "redis_username", "redis_password",
            "redis_decode_responses", "redis_socket_timeout",
            "redis_socket_connect_timeout", "redis_retry_on_timeout",
            "redis_health_check_interval"}
      [] p = "s3" ->
           {"access_key_id", "secret_access_key", "region", "endpoint_url", "use_ssl",
            "verify", "s3_root"}
      [] OTHER ->
           {"hosts_list", "opensearch_username", "opensearch_password",
            "opensearch_timeout", "opensearch_max_retries",
            "opensearch_retry_on_timeout", "opensearch_verify_certs"}

\* whether the startup part creates a connection object (AsyncOpenSearch,
\* Redis); create_artemis_connection returns an ArtemisClient that holds a
\* URL, create_s3_client an aioboto3 Session
CreatesConnection(p) == p \in {"opensearch", "redis"}

\* what the startup part stores in app.state
StateAttributes(p) ==
    CASE p = "artemis" -> {"artemis_client"}
      [] p = "redis" -> {"redis_connection", "redis_client"}
      [] p = "s3" -> {"s3_session", "s3_client"}
      [] OTHER -> {"opensearch_connection", "opensearch_client"}

\* the attribute the routes' dependency looks up (get_artemis_client, ...)
ClientAttribute(p) ==
    CASE p = "artemis" -> "artemis_client"
      [] p = "redis" -> "redis_client"
      [] p = "s3" -> "s3_client"
      [] OTHER -> "opensearch_client"

\* mutant: no lifespan closes anything after its yield
ClosesAtShutdown_never(p) == FALSE

\* whether the part after the yield closes the connection
\* (await connection.close() / await connection.aclose())
ClosesAtShutdown(p) == p \in {"opensearch", "redis"}

NewApp == [pc |-> "not started", state |-> {}, connection |-> "None", opens |-> 0,
           closes |-> 0, served |-> 0, refused |-> 0]

LifespanInit == apps = [p \in Packages |-> NewApp]

\* application startup: the lifespan runs up to its yield
LifespanStartup ==
    /\ \E p \in Packages :
          /\ apps[p].pc = "not started"
          /\ StartupReads(p) \subseteq SettingsAttributes(p)
          /\ apps' = [apps EXCEPT
                        ![p].pc = "serving",
                        ![p].state = StateAttributes(p),
                        ![p].connection = IF CreatesConnection(p) THEN "open" ELSE "None",
                        ![p].opens = IF CreatesConnection(p) THEN 1 ELSE 0]
    /\ UNCHANGED otherThanLifespan

\* application startup: reading the settings raises AttributeError, the
\* lifespan never reaches its yield and the application does not start
LifespanStartupRaises ==
    /\ \E p \in Packages :
          /\ apps[p].pc = "not started"
          /\ ~(StartupReads(p) \subseteq SettingsAttributes(p))
          /\ apps' = [apps EXCEPT ![p].pc = "failed"]
    /\ UNCHANGED otherThanLifespan

\* a request to a route of the package: its dependency takes the client from
\* app.state, or answers 500 "... client not initialized"
ServeRequest ==
    /\ \E p \in Packages :
          /\ apps[p].pc = "serving"
          /\ apps[p].served + apps[p].refused < MaxRequests
          /\ apps' = IF ClientAttribute(p) \in apps[p].state
                     THEN [apps EXCEPT ![p].served = @ + 1]
                     ELSE [apps EXCEPT ![p].refused = @ + 1]
    /\ UNCHANGED otherThanLifespan

\* application shutdown: the lifespan runs from its yield to its end
LifespanShutdown ==
    /\ \E p \in Packages :
          /\ apps[p].pc = "serving"
          /\ apps' = IF ClosesAtShutdown(p)
                     THEN [apps EXCEPT ![p].pc = "stopped",
                                       ![p].connection = "closed",
                                       ![p].closes = @ + 1]
                     ELSE [apps EXCEPT ![p].pc = "stopped"]
    /\ UNCHANGED otherThanLifespan

LifespanNext ==
    LifespanStartup \/ LifespanStartupRaises \/ ServeRequest \/ LifespanShutdown

(***************************************************************************)
(* The dependency of every route: get_redis_client, get_artemis_client,    *)
(* get_opensearch_client, get_s3_client                                    *)
(***************************************************************************)
\* the client objects a startup may create; NoClient is the None that
\* getattr(request.app.state, "<package>_client", None) gives
ClientObjects == {1, 2}
NoClient == 0

\* the routes of each router, all declared with Depends(get_<package>_client)
NumRoutes(p) ==
    CASE p = "artemis" -> 1
      [] p = "redis" -> 10
      [] OTHER -> 13

\* "<Package> client not initialized"
NotInitialized(p) ==
    CASE p = "artemis" -> "Artemis client not initialized"
      [] p = "redis" -> "Redis client not initialized"
      [] p = "s3" -> "S3 client not initialized"
      [] OTHER -> "OpenSearch client not initialized"

\* mutant: the dependency hands on whatever getattr returned
get_client_unchecked(p, client) == [raised |-> FALSE, client |-> client, resp |-> NoResp]

\* get_<package>_client: client is what app.state holds under
\* "<package>_client", NoClient when it holds nothing
get_client(p, client) ==
    IF client = NoClient
    THEN [raised |-> TRUE, client |-> NoClient,
          resp |-> HTTPException(500, <<NotInitialized(p)>>)]
    ELSE [raised |-> FALSE, client |-> client, resp |-> NoResp]

NoRequestYet == [package |-> "None", route |-> 0, held |-> NoClient, handler_ran |-> FALSE, client |-> NoClient,
                 sdk |-> 0, resp |-> NoResp]

RoutingInit ==
    routing = [stored |-> [p \in Packages |-> NoClient],
               handed |-> [p \in Packages |-> {}],
               request |-> NoRequestYet]

\* app.state.<package>_client = client: the lifespan's startup, or the
\* fixture of the tests, stores the client it has created
StoreClient ==
    /\ \E p \in Packages, client \in ClientObjects :
          /\ routing.stored[p] = NoClient
          /\ routing' = [routing EXCEPT !.stored[p] = client]
    /\ UNCHANGED otherThanRouting

\* a request to one of the package's routes: the dependency runs first, and
\* the handler, which calls the SDK through the client, only if it returns
RouteRequest ==
    /\ \E p \in Packages, route \in 1..MaxRoutes :
          LET dep == get_client(p, routing.stored[p])
          IN  /\ route <= NumRoutes(p)
              /\ routing' =
                    IF dep.raised
                    THEN [routing EXCEPT
                            !.request = [package |-> p, route |-> route,
                                         held |-> routing.stored[p], handler_ran |-> FALSE, client |-> NoClient,
                                         sdk |-> 0, resp |-> dep.resp]]
                    ELSE [routing EXCEPT
                            !.handed[p] = @ \cup {dep.client},
                            !.request = [package |-> p, route |-> route,
                                         held |-> routing.stored[p], handler_ran |-> TRUE, client |-> dep.client,
                                         sdk |-> 1, resp |-> NoResp]]
    /\ UNCHANGED otherThanRouting

RoutingNext == StoreClient \/ RouteRequest

(***************************************************************************)
(* Settings: get_settings of the Artemis, Redis and S3 packages            *)
(* (base_settings.py): lru_cache around the settings class, whose fields   *)
(* pydantic-settings fills from the environment                            *)
(***************************************************************************)
SettingsModules == {"artemis", "redis", "s3"}

\* one field per settings class: port (int) for Artemis and Redis, use_ssl
\* (bool) for S3, and the environment variable it is read from
EnvVar(m) ==
    CASE m = "artemis" -> "ARTEMIS_PORT"
      [] m = "redis" -> "REDIS_PORT"
      [] OTHER -> "AWS_USE_SSL"
EnvVars == {EnvVar(m) : m \in SettingsModules}

Unset == "<unset>"
EnvValues == {Unset, "", "6380", "false", "abc"}

\* Field(default=...)
FieldDefault(m) ==
    CASE m = "artemis" -> PyInt(61616)
      [] m = "redis" -> PyInt(6379)
      [] OTHER -> PyBool(TRUE)

\* env_ignore_empty=True in the class's model_config
IgnoresEmpty(m) == m \in {"artemis", "redis"}

\* pydantic's validation of the variable's text for the field's type
ParseField(m, raw) ==
    IF m \in {"artemis", "redis"}
    THEN IF raw = "6380" THEN [ok |-> TRUE, val |-> PyInt(6380)]
         ELSE [ok |-> FALSE, val |-> PyNone]
    ELSE IF raw = "false" THEN [ok |-> TRUE, val |-> PyBool(FALSE)]
         ELSE [ok |-> FALSE, val |-> PyNone]

\* a settings object: its class, its identity and its field
SettingsRecord(m, id, value) == [cls |-> m, id |-> id, value |-> value]
NoSettings == SettingsRecord("None", 0, PyNone)
ValidationError == SettingsRecord("ValidationError", 0, PyNone)

\* ArtemisSettings() / RedisSettings() / S3Settings(): the id-th object of
\* its class, or ValidationError
NewSettings(m, env, id) ==
    LET raw == env[EnvVar(m)]
        parsed == ParseField(m, raw)
    IN  IF raw = Unset \/ (raw = "" /\ IgnoresEmpty(m))
        THEN SettingsRecord(m, id, FieldDefault(m))
        ELSE IF parsed.ok THEN SettingsRecord(m, id, parsed.val)
        ELSE ValidationError

\* mutant: get_settings without @lru_cache()
get_settings_uncached(cache, m, env, id) ==
    LET new == NewSettings(m, env, id)
    IN  [cache |-> cache, ret |-> new, cached |-> FALSE]

\* @lru_cache() def get_settings(): a hit returns the cached object; a miss
\* calls the class and caches what it returns, an exception is not cached
get_settings(cache, m, env, id) ==
    LET new == NewSettings(m, env, id)
    IN  IF cache # NoSettings THEN [cache |-> cache, ret |-> cache, cached |-> TRUE]
        ELSE IF new = ValidationError
        THEN [cache |-> NoSettings, ret |-> ValidationError, cached |-> FALSE]
        ELSE [cache |-> new, ret |-> new, cached |-> FALSE]

NoSettingsCall == [module |-> "None", ret |-> NoSettings, cached |-> FALSE]

SettingsInit ==
    /\ environ \in [EnvVars -> {Unset}]
    /\ settings_cache = [m \in SettingsModules |-> NoSettings]
    /\ instances = [m \in SettingsModules |-> 0]
    /\ first_settings = [m \in SettingsModules |-> NoSettings]
    /\ settings_call = NoSettingsCall

\* the environment changes (os.environ, monkeypatch.setenv / delenv)
SetEnv ==
    /\ \E v \in EnvVars, x \in EnvValues :
          /\ environ[v] # x
          /\ environ' = [environ EXCEPT ![v] = x]
    /\ UNCHANGED <<settings_cache, instances, first_settings, settings_call>>
    /\ UNCHANGED otherThanSettings

\* a call of get_settings()
GetSettings ==
    /\ \E m \in SettingsModules :
          LET r == get_settings(settings_cache[m], m, environ, instances[m] + 1)
              built == ~r.cached /\ r.ret # ValidationError
          IN  /\ settings_cache' = [settings_cache EXCEPT ![m] = r.cache]
              /\ instances' = [instances EXCEPT ![m] = IF built THEN @ + 1 ELSE @]
              /\ first_settings' =
                    IF first_settings[m] = NoSettings /\ r.ret # ValidationError
                    THEN [first_settings EXCEPT ![m] = r.ret]
                    ELSE first_settings
              /\ settings_call' = [module |-> m, ret |-> r.ret, cached |-> r.cached]
    /\ UNCHANGED environ
    /\ UNCHANGED otherThanSettings

SettingsNext == SetEnv \/ GetSettings

(***************************************************************************)
(* OpenSearch: the cluster behind the connection, OpenSearchClient         *)
(* (client.py) and the routes (routes.py)                                  *)
(***************************************************************************)
MaxIds == 2

IndexNames == {"test-api-integration-index", "non-existent-index"}
DocIds == {"bulk-get-1", "bulk-get-2"}
\* {} and {"t": "1"}
Documents == {PyDict(<<>>), PyDict(<< <<116>>, <<49>> >>)}
\* document_ids of a bulk-get request
IdLists == UNION {[1..n -> DocIds] : n \in 0..MaxIds}

NoIndex == [exists |-> FALSE, docs |-> [d \in DocIds |-> PyNone]]
EmptyIndex == [exists |-> TRUE, docs |-> [d \in DocIds |-> PyNone]]
Stored(ix, index, id) == ix[index].exists /\ ix[index].docs[id] # PyNone

\* ---- the SDK calls: what the connection returns or raises.  `up` tells
\* ---- whether the cluster can be reached when the call is made.
\* get: the response of a stored document carries its _source
SdkGet(ix, up, index, id) ==
    IF ~up THEN PyRaise("ConnectionError")
    ELSE IF ~Stored(ix, index, id) THEN PyRaise("NotFoundError")
    ELSE [t |-> "dict", id |-> id, found |-> TRUE, source |-> ix[index].docs[id]]

\* mget: one entry of "docs" per requested id, in the order of the request
SdkMget(ix, up, index, ids) ==
    IF ~up THEN PyRaise("ConnectionError")
    ELSE [t |-> "dict",
          docs |-> [i \in 1..Len(ids) |->
                      [id |-> ids[i], found |-> Stored(ix, index, ids[i]),
                       source |-> IF Stored(ix, index, ids[i])
                                  THEN ix[index].docs[ids[i]] ELSE PyNone]]]

\* indices.delete
SdkIndicesDelete(ix, up, name) ==
    IF ~up THEN PyRaise("ConnectionError")
    ELSE IF ~ix[name].exists THEN PyRaise("NotFoundError")
    ELSE [t |-> "dict", acknowledged |-> TRUE]

\* indices.create
SdkIndicesCreate(ix, up, name) ==
    IF ~up THEN PyRaise("ConnectionError")
    ELSE IF ix[name].exists THEN PyRaise("RequestError")
    ELSE [t |-> "dict", acknowledged |-> TRUE]

\* ---- OpenSearchClient
index_exists(ix, name) == ix[name].exists

\* mutant: the exception of the SDK call leaves get_document
get_document_uncaught(response) ==
    IF Raised(response) THEN response ELSE response.source

\* get_document: response.get("_source"), None for every exception
get_document(response) ==
    IF Raised(response) THEN PyNone ELSE response.source

\* the ids of the documents of an mget response from position i on
RECURSIVE DocIdsFrom(_, _)
DocIdsFrom(docs, i) ==
    IF i > Len(docs) THEN {}
    ELSE (IF docs[i].id # "" THEN {docs[i].id} ELSE {}) \cup DocIdsFrom(docs, i + 1)

\* the value result[doc_id] holds after the loop: the last entry wins
LastEntry(docs, doc_id) ==
    LET i == CHOOSE j \in 1..Len(docs) :
                 /\ docs[j].id = doc_id
                 /\ \A m \in (j + 1)..Len(docs) : docs[m].id # doc_id
    IN  docs[i]

\* mutant: only the documents that were found get an entry
get_documents_found_only(document_ids, response) ==
    IF document_ids = <<>> THEN [t |-> "dict", d |-> <<>>]
    ELSE IF Raised(response) THEN response
    ELSE [t |-> "dict",
          d |-> [doc_id \in {x \in DocIdsFrom(response.docs, 1) :
                                LastEntry(response.docs, x).found} |->
                    LastEntry(response.docs, doc_id).source]]

\* get_documents: {document_id: _source or None}; response is the answer of
\* mget, which is not asked for an empty id list
get_documents(document_ids, response) ==
    IF document_ids = <<>> THEN [t |-> "dict", d |-> <<>>]
    ELSE IF Raised(response) THEN response
    ELSE [t |-> "dict",
          d |-> [doc_id \in DocIdsFrom(response.docs, 1) |->
                    IF LastEntry(response.docs, doc_id).found
                    THEN LastEntry(response.docs, doc_id).source
                    ELSE PyNone]]

\* ---- the routes
\* mutant: every exception of delete_index is answered 404
delete_index_route_except_all(index_name, response) ==
    IF Raised(response)
    THEN HTTPException(404, <<"Index not found: ", index_name>>)
    ELSE Ok200(response)

\* DELETE /opensearch/indices/{index_name}
delete_index_route(index_name, response) ==
    IF response.t = "NotFoundError"
    THEN HTTPException(404, <<"Index not found: ", index_name>>)
    ELSE IF Raised(response) THEN InternalServerError
    ELSE Ok200(response)

\* POST /opensearch/documents/get
get_document_route(document) ==
    IF Raised(document) THEN InternalServerError
    ELSE IF document = PyNone THEN HTTPException(404, <<"Document not found">>)
    ELSE Ok200([document |-> document])

\* POST /opensearch/documents/bulk-get
get_documents_route(result) ==
    IF Raised(result) THEN InternalServerError ELSE Ok200(result)

\* the routes that return what the client returns
passthrough_route(result) ==
    IF Raised(result) THEN InternalServerError ELSE Ok200(result)

\* ---- the calls
OsCall(op, index, ids, up, sdk, ret, resp) ==
    [op |-> op, index |-> index, ids |-> ids, up |-> up, sdk |-> sdk,
     ret |-> ret, resp |-> resp]
NoOsCall == OsCall("none", "", <<>>, TRUE, 0, PyNone, NoResp)

OpenSearchInit ==
    /\ indices = [name \in IndexNames |-> NoIndex]
    /\ oscall = NoOsCall
    /\ searches = <<>>

\* POST /opensearch/indices/{index_name}/create
CreateIndex ==
    /\ \E name \in IndexNames, up \in BOOLEAN :
          LET response == SdkIndicesCreate(indices, up, name)
          IN  /\ indices' = IF Raised(response) THEN indices
                            ELSE [indices EXCEPT ![name] = EmptyIndex]
              /\ oscall' = OsCall("create_index", name, <<>>, up, 1, response,
                                  passthrough_route(response))
    /\ UNCHANGED searches
    /\ UNCHANGED otherThanOpenSearch

\* POST /opensearch/indices/{index_name}/exists
IndexExists ==
    /\ \E name \in IndexNames :
          oscall' = OsCall("index_exists", name, <<>>, TRUE, 1,
                           PyBool(index_exists(indices, name)),
                           Ok200([exists |-> index_exists(indices, name)]))
    /\ UNCHANGED <<indices, searches>>
    /\ UNCHANGED otherThanOpenSearch

\* DELETE /opensearch/indices/{index_name}
DeleteIndex ==
    /\ \E name \in IndexNames, up \in BOOLEAN :
          LET response == SdkIndicesDelete(indices, up, name)
          IN  /\ indices' = IF Raised(response) THEN indices
                            ELSE [indices EXCEPT ![name] = NoIndex]
              /\ oscall' = OsCall("delete_index", name, <<>>, up, 1, response,
                                  delete_index_route(name, response))
    /\ UNCHANGED searches
    /\ UNCHANGED otherThanOpenSearch

\* POST /opensearch/documents/index with a document_id: the index is created
\* when it does not exist
IndexDocument ==
    /\ \E index \in IndexNames, id \in DocIds, document \in Documents, up \in BOOLEAN :
          /\ indices' =
                 IF ~up THEN indices
                 ELSE [indices EXCEPT ![index] =
                          [exists |-> TRUE, docs |-> [@.docs EXCEPT ![id] = document]]]
          /\ oscall' =
                 LET response == IF up THEN [t |-> "dict", id |-> id, result |-> "indexed"]
                                 ELSE PyRaise("ConnectionError")
                 IN  OsCall("index_document", index, <<id>>, up, 1, response,
                            passthrough_route(response))
    /\ UNCHANGED searches
    /\ UNCHANGED otherThanOpenSearch

\* POST /opensearch/documents/get
GetDocument ==
    /\ \E index \in IndexNames, id \in DocIds, up \in BOOLEAN :
          LET document == get_document(SdkGet(indices, up, index, id))
          IN  oscall' = OsCall("get_document", index, <<id>>, up, 1, document,
                               get_document_route(document))
    /\ UNCHANGED <<indices, searches>>
    /\ UNCHANGED otherThanOpenSearch

\* POST /opensearch/documents/bulk-get
GetDocuments ==
    /\ \E index \in IndexNames, ids \in IdLists, up \in BOOLEAN :
          LET result == get_documents(ids, SdkMget(indices, up, index, ids))
          IN  oscall' = OsCall("get_documents", index, ids, up,
                               IF ids = <<>> THEN 0 ELSE 1, result,
                               get_documents_route(result))
    /\ UNCHANGED <<indices, searches>>
    /\ UNCHANGED otherThanOpenSearch

OpenSearchNext ==
    \/ CreateIndex \/ IndexExists \/ DeleteIndex
    \/ IndexDocument \/ GetDocument \/ GetDocuments

(***************************************************************************)
(* OpenSearch: bulk_index_documents (client.py) and its route              *)
(***************************************************************************)
\* how many documents a bulk request carries
MaxBulk == 2
\* api_test_index
BulkIndex == "test-api-integration-index"
\* an entry of document_ids that is None
NoDocId == "<None>"
BulkIdEntries == {NoDocId, "", "bulk-get-1"}
\* document_ids: None, or a list that may be shorter or longer than documents
NoDocIds == [t |-> "None", l |-> <<>>]
BulkIdLists == {NoDocIds} \cup
               {[t |-> "list", l |-> ids] :
                    ids \in UNION {[1..n -> BulkIdEntries] : n \in 0..MaxBulk}}
BulkDocuments == UNION {[1..n -> Documents] : n \in 0..MaxBulk}

\* the two kinds of entry of a bulk body
ActionEntry(index, has_id, id) ==
    [kind |-> "action", index |-> index, has_id |-> has_id, id |-> id, doc |-> PyNone]
DocEntry(doc) ==
    [kind |-> "doc", index |-> "", has_id |-> FALSE, id |-> "", doc |-> doc]

\* mutant: _id is set from every entry of document_ids, None and "" included
BulkAction_every_entry(index, document_ids, i) ==
    IF document_ids.t # "None" /\ document_ids.l # <<>> /\ i <= Len(document_ids.l)
    THEN ActionEntry(index, TRUE, document_ids.l[i])
    ELSE ActionEntry(index, FALSE, "")

\* the action of document i (counted from 1): {"index": {"_index": index}}
\* with _id when "document_ids and i < len(document_ids)" and "doc_id"
BulkAction(index, document_ids, i) ==
    IF /\ document_ids.t # "None" /\ document_ids.l # <<>>
       /\ i <= Len(document_ids.l)
       /\ document_ids.l[i] \notin {NoDocId, ""}
    THEN ActionEntry(index, TRUE, document_ids.l[i])
    ELSE ActionEntry(index, FALSE, "")

\* the loop that builds the body
RECURSIVE BulkBody(_, _, _, _)
BulkBody(index, documents, document_ids, i) ==
    IF i > Len(documents) THEN <<>>
    ELSE <<BulkAction(index, document_ids, i), DocEntry(documents[i])>>
         \o BulkBody(index, documents, document_ids, i + 1)

\* the connection's bulk: one item per action, in order; `failing` are the
\* positions of the documents the cluster does not index, and the errors
\* flag tells whether there is one
SdkBulk(up, body, failing) ==
    IF ~up THEN PyRaise("ConnectionError")
    ELSE LET n == Len(body) \div 2
             items == [i \in 1..n |->
                         [id |-> body[2 * i - 1].id,
                          error |-> IF i \in failing THEN "mapper_parsing_exception"
                                    ELSE "None"]]
         IN  [t |-> "dict", errors |-> \E i \in 1..n : i \in failing,
              items |-> items, has_took |-> TRUE]

\* the cluster after the bulk: an indexed document with an _id is stored
\* under it (documents indexed under a generated id are not kept here)
RECURSIVE BulkStore(_, _, _, _)
BulkStore(docs, body, failing, i) ==
    IF 2 * i > Len(body) THEN docs
    ELSE LET action == body[2 * i - 1]
             next == IF action.has_id /\ action.id \in DocIds /\ i \notin failing
                     THEN [docs EXCEPT ![action.id] = body[2 * i].doc]
                     ELSE docs
         IN  BulkStore(next, body, failing, i + 1)

\* bulk_index_documents after the SDK call: the dictionary it returns
BulkResult(response) ==
    IF Raised(response) THEN response
    ELSE LET has_errors ==
                 IF response.errors
                 THEN \E i \in DOMAIN response.items : response.items[i].error # "None"
                 ELSE FALSE
         IN  [t |-> "dict", errors |-> has_errors, items |-> response.items,
              has_took |-> TRUE]

\* "if not documents": no SDK call, no "took"
EmptyBulkResult == [t |-> "dict", errors |-> FALSE, items |-> <<>>, has_took |-> FALSE]

BulkCall(op, index, documents, document_ids, up, sdk, body, response, ret, resp) ==
    [op |-> op, index |-> index, documents |-> documents, document_ids |-> document_ids,
     up |-> up, sdk |-> sdk, body |-> body, response |-> response, ret |-> ret,
     resp |-> resp]
NoBulkCall == BulkCall("none", "", <<>>, NoDocIds, TRUE, 0, <<>>, PyNone, PyNone, NoResp)

BulkInit == bulk = NoBulkCall

\* POST /opensearch/documents/bulk-index
BulkIndexDocuments ==
    /\ \E index \in {BulkIndex}, documents \in BulkDocuments,
          document_ids \in BulkIdLists, up \in BOOLEAN,
          failing \in SUBSET (1..MaxBulk) :
          LET body == BulkBody(index, documents, document_ids, 1)
              response == SdkBulk(up, body, failing)
              ret == BulkResult(response)
          IN  /\ failing \subseteq 1..Len(documents)
              /\ up \/ failing = {}
              /\ IF documents = <<>>
                 THEN /\ bulk' = BulkCall("bulk_index_documents", index, documents,
                                          document_ids, up, 0, <<>>, PyNone,
                                          EmptyBulkResult,
                                          passthrough_route(EmptyBulkResult))
                      /\ UNCHANGED indices
                 ELSE /\ bulk' = BulkCall("bulk_index_documents", index, documents,
                                          document_ids, up, 1, body, response, ret,
                                          passthrough_route(ret))
                      /\ indices' =
                            IF ~up \/ failing = 1..Len(documents) THEN indices
                            ELSE [indices EXCEPT ![index] =
                                     [exists |-> TRUE,
                                      docs |-> BulkStore(@.docs, body, failing, 1)]]
    /\ UNCHANGED <<oscall, searches>>
    /\ UNCHANGED otherThanOpenSearchAndBulk

BulkNext == BulkIndexDocuments

(***************************************************************************)
(* OpenSearch: hybrid search.  The weights are numbers of tenths.          *)
(***************************************************************************)
Weights == {0, 5, 10}
\* text_fields: None (or an empty list) and ["title"]
TextFields == {<<>>, <<"title">>}
\* filter: None and {"term": {"category": "a"}}
Filters == {"None", "term"}
Sizes == {1, 10}
HybridSearchRequests ==
    [index : {"test-api-integration-index"}, vector_field : {"embedding"},
     query_vector : {<<1, 0>>}, query_text : {"test"},
     text_fields : TextFields, size : Sizes,
     vector_weight : Weights, text_weight : Weights, filter : Filters]

\* hybrid_search: the body it hands to the connection's search; a key that
\* the code does not set has the value "absent"
hybrid_search(request) ==
    LET knn_query == [vector |-> request.query_vector, k |-> request.size,
                      filter |-> IF request.filter # "None" THEN request.filter
                                 ELSE "absent"]
        text_query == IF request.text_fields # <<>>
                      THEN [kind |-> "multi_match", query |-> request.query_text,
                            fields |-> request.text_fields]
                      ELSE [kind |-> "query_string", query |-> request.query_text,
                            fields |-> <<>>]
    IN  [size |-> request.size,
         should |-> <<[knn |-> [field |-> request.vector_field, query |-> knn_query]],
                      text_query>>,
         minimum_should_match |-> 1,
         filter |-> IF request.filter # "None" THEN <<request.filter>> ELSE <<>>]

\* POST /opensearch/search/hybrid: the search is sent; the two most recent
\* searches are remembered
HybridSearch ==
    /\ \E request \in HybridSearchRequests :
          LET sent == [index |-> request.index, request |-> request,
                       body |-> hybrid_search(request)]
          IN  searches' = IF searches = <<>> THEN <<sent>>
                          ELSE <<searches[Len(searches)], sent>>
    /\ UNCHANGED <<indices, oscall>>
    /\ UNCHANGED otherThanOpenSearch

SearchNext == HybridSearch

(***************************************************************************)
(* Redis: properties                                                       *)
(***************************************************************************)
AllEmpty(names) == \A i \in 1..Len(names) : lists[Utf8Encode(names[i])] = <<>>

C8_BlockingPopGetsPush ==
    [][LET q == last'.arg.names[1]
           m == last'.msg
           i == FirstWaiter(blocked, Utf8Encode(q))
       IN  ( /\ last'.op = "push"
             /\ Push(q, m, last'.side)
             /\ m.t = "str"
             /\ i > 0
             /\ blocked[i].requested > 0 )
             => /\ last'.dl.done
                /\ last'.dl.timeout = blocked[i].requested
                /\ last'.dl.ret = PyPair("str", q, m.s)
                /\ last'.dl.resp = Ok200([queue_name |-> q, message |-> m,
                                          text |-> ""])
                /\ lists'[Utf8Encode(q)] = <<>>
                /\ blocked' = RemoveAt(blocked, i)
      ]_vars

C8_Witness ==
    /\ last.op = "push" /\ last.msg = PyStr(<<233>>)
    /\ last.dl.done /\ last.dl.timeout > 0
    /\ last.dl.ret = PyPair("str", last.arg.names[1], <<233>>)
    /\ AllEmpty(last.arg.names)
    /\ ~decode_responses

\* C9: a queue_blocking_pop that returns (it is given at least one name) returns
\* None exactly when its timeout ran out; then its timeout was greater than 0,
\* every queue it named is empty and the route answers 408.  A pop that is
\* answered at once or by a push returns a pair and the route answers 200; with
\* timeout 0 it never returns None and is never given a timeout by the client.
C9_NoneOnlyOnTimeout ==
    /\ (last.op = "bpop" /\ ~Raised(last.ret))
       => /\ (last.ret = PyNone) <=> last.timedOut
          /\ last.ret = PyNone
             => /\ last.timeout > 0
                /\ AllEmpty(BlockingPopNames(last.arg))
                /\ last.resp = HTTPException(408,
                       <<"Timeout: no message received within the specified timeout">>)
          /\ last.ret # PyNone => last.ret.t = "tuple" /\ last.resp.status = 200
    /\ last.dl.done => last.dl.ret.t = "tuple" /\ last.dl.resp.status = 200
    /\ \A i \in 1..Len(blocked) :
          /\ blocked[i].requested = 0 => blocked[i].timeout = 0
          /\ AllEmpty(BlockingPopNames(blocked[i].arg))

C9_Witness ==
    /\ last.op = "bpop" /\ last.ret = PyNone /\ last.timedOut
    /\ last.timeout = 1 /\ last.resp.status = 408
    /\ Len(last.arg.names) = 2

\* C10: queue_pop on an empty (or absent) queue returns None and changes no
\* queue, and the route answers 404 "Queue '<name>' is empty"; on a non-empty
\* queue it removes exactly one element from that queue, changes no other
\* queue, and the route answers 200 with that element.
C10_PopEmptyOrOne ==
    [][LET q == last'.arg.names[1]
           key == Utf8Encode(q)
       IN  (last'.op = "pop" /\ Pop(q, last'.side)) =>
               IF lists[key] = <<>>
               THEN /\ last'.ret = PyNone
                    /\ lists' = lists
                    /\ last'.resp = HTTPException(404, <<"Queue '", q, "' is empty">>)
               ELSE \E e \in {lists[key][1], lists[key][Len(lists[key])]} :
                       /\ \/ lists[key] = <<e>> \o lists'[key]
                          \/ lists[key] = lists'[key] \o <<e>>
                       /\ \A other \in Keys \ {key} : lists'[other] = lists[other]
                       /\ last'.ret = PyStr(Utf8Decode(e).val)
                       /\ last'.resp = Ok200([queue_name |-> q, message |-> last'.ret,
                                              text |-> ""])
      ]_vars

C10_Witness ==
    /\ last.op = "pop" /\ last.sizeBefore = 0 /\ last.ret = PyNone
    /\ last.resp.status = 404
    /\ \E key \in Keys : Len(lists[key]) = 2

\* the first n / the last n elements of a stored list, as the strings the
\* client returns them
Decoded(lst) == [i \in 1..Len(lst) |-> Utf8Decode(lst[i]).val]
Min(a, b) == IF a < b THEN a ELSE b

\* C11: queue_peek(q, count, side) leaves the queue as it was and returns
\* min(count, size) elements: the first count elements of the list for side
\* "left", the last count elements in list order for side "right".
C11_PeekViews ==
    last.op = "peek" =>
        LET lst == lists[Utf8Encode(last.arg.names[1])]
            n == Min(last.count, last.sizeBefore)
        IN  /\ Len(lst) = last.sizeBefore
            /\ Len(last.ret.l) = n
            /\ last.ret.l = IF last.side = "left"
                            THEN Decoded(SubSeq(lst, 1, n))
                            ELSE Decoded(SubSeq(lst, Len(lst) - n + 1, Len(lst)))

C13_PushReturnsNewSize ==
    LET q == last.arg.names[1]
    IN  /\ (last.op = "push" /\ ~Raised(last.ret)) =>
               /\ last.ret = PyInt(last.sizeBefore + 1)
               /\ queue_size(lists, q) = last.ret.n
        /\ ( /\ prev.op = "push" /\ prev.sizeBefore = 0
              /\ last.op = "push" /\ ~Raised(last.ret) /\ last.arg = prev.arg )
            => queue_size(lists, q) = 2

\* C13, amended: a queue_push that returns, returns the size before it plus 1;
\* queue_size reports that value right after it unless a blocking pop was
\* waiting for the queue, which takes the pushed element at once; two pushes
\* onto an empty queue nobody waits for leave a queue of size 2, whichever
\* sides they used.
C13_PushReturnsSizePlusOne ==
    LET q == last.arg.names[1]
    IN  /\ (last.op = "push" /\ ~Raised(last.ret)) =>
               /\ last.ret = PyInt(last.sizeBefore + 1)
               /\ ~last.dl.done => queue_size(lists, q) = last.ret.n
               /\ last.dl.done =>
                      /\ last.sizeBefore = 0
                      /\ queue_size(lists, q) = 0
        /\ ( /\ prev.op = "push" /\ prev.sizeBefore = 0
              /\ last.op = "push" /\ ~Raised(last.ret) /\ last.arg = prev.arg
              /\ ~last.dl.done )
            => /\ queue_size(lists, q) = 2
               /\ last.ret = PyInt(2)

\* two pushes from different sides onto an empty queue
C13_Witness ==
    /\ prev.op = "push" /\ prev.sizeBefore = 0 /\ prev.side = "right"
    /\ last.op = "push" /\ last.arg = prev.arg /\ last.side = "left"
    /\ last.msg.t = "list"
    /\ last.ret = PyInt(2)
    /\ queue_size(lists, last.arg.names[1]) = 2

\* the messages of the pushes, and of the pops, in the order they happened
RECURSIVE Msgs(_, _)
Msgs(log, op) ==
    IF log = <<>> THEN <<>>
    ELSE (IF Head(log).op = op THEN <<Head(log).msg>> ELSE <<>>) \o Msgs(Tail(log), op)

\* every pop of the log returned the message pushed last among those not
\* popped yet; `stack` holds these, the latest first
RECURSIVE PopsLatest(_, _)
PopsLatest(log, stack) ==
    IF log = <<>> THEN TRUE
    ELSE IF Head(log).op = "push" THEN PopsLatest(Tail(log), <<Head(log).msg>> \o stack)
    ELSE /\ stack # <<>>
         /\ Head(log).msg = Head(stack)
         /\ PopsLatest(Tail(log), Tail(stack))

SidesOf(log, op) == {log[i].side : i \in {j \in DOMAIN log : log[j].op = op}}

\* C25: with every push on "left" and every pop (blocking or not) on "right"
\* the messages are popped in the order they were pushed; with every push and
\* every pop on the same side each pop returns the message pushed last.
C25_FifoAndLifo ==
    LET pushes == Msgs(oplog, "push")
        pops == Msgs(oplog, "pop")
    IN  /\ (SidesOf(oplog, "push") \subseteq {"left"}
            /\ SidesOf(oplog, "pop") \subseteq {"right"})
           => (Len(pops) <= Len(pushes) /\ pops = SubSeq(pushes, 1, Len(pops)))
        /\ (\E side \in Sides : SidesOf(oplog, "push") \cup SidesOf(oplog, "pop")
                                    \subseteq {side})
           => PopsLatest(oplog, <<>>)

\* "a" and "b" were pushed on the left while both were in the queue, and
\* popped on the right in that order
C25_Witness ==
    /\ Len(oplog) = 4
    /\ oplog[1] = LogPush("left", PyStr(<<97>>))
    /\ oplog[2] = LogPush("left", PyStr(<<98>>))
    /\ oplog[3] = LogPop("right", <<97>>)
    /\ oplog[4] = LogPop("right", <<98>>)

(***************************************************************************)
(* Artemis: properties                                                     *)
(***************************************************************************)
Returned(c) == calls[c].pc = "returned"

\* the sender a call's own container events lead to, starting from the
\* sender send_message builds
RECURSIVE Replay(_, _)
Replay(s, hist) ==
    IF hist = <<>> THEN s ELSE Replay(Handle(s, Head(hist)).s, Tail(hist))

OwnSender(c) ==
    Replay(NewSender(ConnectionUrl, calls[c].req.queue, calls[c].req.body),
           calls[c].hist)

C6_OwnSenderOwnContainer ==
    \A c \in CallIds :
        Returned(c) =>
            /\ calls[c].runs = 1
            /\ calls[c].sent <= 1
            /\ calls[c].ret = SendResult(OwnSender(c), calls[c].raised)

\* two calls that ran at the same time returned different booleans
C6_Witness ==
    /\ \A c \in CallIds : Returned(c) /\ calls[c].overlapped
    /\ \E c \in CallIds, d \in CallIds : calls[c].ret /\ ~calls[d].ret

\* C7: POST /artemis/send answers 200 with the queue and the body of the
\* request and "Message sent successfully" exactly when send_message returned
\* True, and 500 "Failed to send message to queue '<queue>'" when it returned
\* False.
C7_SendRoute ==
    \A c \in CallIds :
        Returned(c) =>
            /\ (calls[c].resp.status = 200) = calls[c].ret
            /\ calls[c].ret =>
                   /\ calls[c].resp.body.queue = calls[c].req.queue
                   /\ calls[c].resp.body.body = calls[c].req.body
                   /\ calls[c].resp.body.message = "Message sent successfully"
            /\ ~calls[c].ret =>
                   /\ calls[c].resp.status = 500
                   /\ calls[c].resp.detail =
                          <<"Failed to send message to queue '", calls[c].req.queue, "'">>

\* one request was answered 200 and one 500
C7_Witness ==
    \E c \in CallIds, d \in CallIds :
        /\ Returned(c) /\ calls[c].resp.status = 200
        /\ Returned(d) /\ calls[d].resp.status = 500
        /\ calls[c].req.queue # calls[d].req.queue

\* the events of call c's container hold ev
InHist(c, ev) == \E i \in DOMAIN calls[c].hist : calls[c].hist[i] = ev

\* C23: send_message returns True only if on_accepted ran for the message.
C23_TrueOnlyIfAccepted ==
    \A c \in CallIds : (Returned(c) /\ calls[c].ret) => InHist(c, "accepted")

\* the events after which send_message is to return: a connection failure
\* in on_start, and what becomes of the message once it is sent
EndingEvents ==
    {"connect raises", "connect raises ()", "create_sender raises",
     "accepted", "rejected", "released", "transport error"}

\* C24: every send_message call returns, because for a connection failure
\* before sending and for every broker outcome after the message is sent
\* (accepted, rejected, released, transport error) the handler of the event
\* stops the container: the step that dispatches such an event leaves the
\* call's container stopping.
C24_EveryOutcomeStopsContainer ==
    [][\A c \in CallIds :
          (/\ Len(calls'[c].hist) = Len(calls[c].hist) + 1
           /\ calls'[c].hist[Len(calls'[c].hist)] \in EndingEvents)
          => calls'[c].pc = "stopping"]_vars

\* the step dispatches event ev to the sender of call c
Dispatches(c, ev) ==
    /\ Len(calls'[c].hist) = Len(calls[c].hist) + 1
    /\ calls'[c].hist[Len(calls'[c].hist)] = ev

\* C26: one send_message call puts at most one message on the link however
\* often on_sendable fires: a send happens only while sent is False and sets
\* it; a send that raises leaves sent False, puts nothing on the link and
\* records an error.
C26_SentAtMostOnce ==
    [][\A c \in CallIds :
          /\ calls'[c].sent <= 1
          /\ calls'[c].sent > calls[c].sent
                => (~senders[SenderOf(c)].sent /\ senders'[SenderOf(c)].sent)
          /\ (Dispatches(c, "sendable, send raises") /\ ~senders[SenderOf(c)].sent)
                => /\ ~senders'[SenderOf(c)].sent
                   /\ senders'[SenderOf(c)].error # NoError
                   /\ calls'[c].sent = calls[c].sent]_vars

\* on_sendable fired twice for one call and one message is on the link
C26_Witness ==
    \E c \in CallIds :
        /\ calls[c].hist = <<"start ok", "sendable", "sendable">>
        /\ calls[c].sent = 1
        /\ senders[SenderOf(c)].sent

(***************************************************************************)
(* S3: properties                                                          *)
(***************************************************************************)
\* C2: a download of a key that follows a successful upload to it, with no
\* other write to the key in between, returns exactly the bytes the upload
\* was for; through the routes the body of the download answer is the
\* base64-decoded data of the upload request.
C2_UploadThenDownload ==
    LET meant == intended[<<s3call.bucket, s3call.key>>]
    IN  (s3call.op = "download" /\ meant # PyNone) =>
            /\ s3call.ret = meant
            /\ s3call.resp.status = 200
            /\ s3call.resp.content = meant

\* a two-byte object is downloaded while the other key holds an object too
C2_Witness ==
    /\ s3call.op = "download"
    /\ s3call.resp.status = 200
    /\ s3call.resp.content = PyBytes(<<77, 255>>)
    /\ intended[<<s3call.bucket, s3call.key>>] = PyBytes(<<77, 255>>)
    /\ \A key \in ObjectKeys : objects[<<s3call.bucket, key>>] # PyNone

\* C18: object_exists and bucket_exists never raise and return False whenever
\* the SDK call raised; with the endpoint in reach object_exists returns True
\* exactly for a key whose last successful write was an upload_object, so
\* False after a successful delete_object until the key is uploaded again.
C18_ExistsFollowsDeleteAndUpload ==
    LET last_write == intended[<<s3call.bucket, s3call.key>>]
    IN  /\ s3call.op \in {"exists", "bucket exists"} =>
              /\ s3call.ret \in {PyBool(TRUE), PyBool(FALSE)}
              /\ Raised(s3call.sdk) => s3call.ret = PyBool(FALSE)
        /\ (s3call.op = "exists" /\ s3call.up) =>
              s3call.ret = PyBool(last_write \notin {PyNone, Deleted})
        /\ (s3call.op = "bucket exists" /\ s3call.up) =>
              s3call.ret = PyBool(s3call.bucket \in S3Buckets)
        /\ (s3call.op = "delete" /\ ~Raised(s3call.ret)) =>
              object_exists(objects, TRUE, s3call.bucket, s3call.key) = PyBool(FALSE)
        /\ (s3call.op = "upload" /\ ~Raised(s3call.ret)) =>
              object_exists(objects, TRUE, s3call.bucket, s3call.key) = PyBool(TRUE)

\* object_exists answers False for a key that was uploaded and then deleted,
\* while the other key of the bucket is still there
C18_Witness ==
    /\ s3call.op = "exists" /\ s3call.up
    /\ intended[<<s3call.bucket, s3call.key>>] = Deleted
    /\ s3call.ret = PyBool(FALSE)
    /\ \E key \in ObjectKeys : objects[<<s3call.bucket, key>>] # PyNone

\* C19: POST /s3/objects/download answers 404 "Object not found: ..." whenever
\* download_object raises, which it does for a missing object, a missing
\* bucket and an endpoint out of reach, and 200 with the stored bytes as
\* application/octet-stream otherwise; POST /s3/objects/metadata answers 404
\* with the same detail for every exception.
C19_DownloadAndMetadata404 ==
    LET stored == objects[<<s3call.bucket, s3call.key>>]
        failing == \/ ~s3call.up
                   \/ s3call.bucket \notin S3Buckets
                   \/ stored = PyNone
    IN  /\ s3call.op \in {"download route", "metadata route"} =>
              /\ Raised(s3call.ret) <=> failing
              /\ Raised(s3call.ret) =>
                    /\ s3call.resp.status = 404
                    /\ s3call.resp.detail = "Object not found: ..."
              /\ ~Raised(s3call.ret) => s3call.resp.status = 200
        /\ (s3call.op = "download route" /\ ~Raised(s3call.ret)) =>
              /\ s3call.resp.content = stored
              /\ stored.t = "bytes"
              /\ s3call.resp.media_type = "application/octet-stream"

\* the endpoint is out of reach when an object that is there is downloaded
C19_Witness ==
    /\ s3call.op = "download route"
    /\ ~s3call.up
    /\ objects[<<s3call.bucket, s3call.key>>] = PyBytes(<<77, 255>>)
    /\ s3call.resp.status = 404

(***************************************************************************)
(* sync_dir: properties                                                    *)
(***************************************************************************)
\* the file a listed key is to be found at: local_path/<key relative to
\* s3_prefix>, local_path/<key> for an empty prefix
LocalFileOf(s3_key, s3_prefix, local_path) ==
    normpath(local_path \o (IF s3_prefix # <<>> THEN relpath(s3_key, s3_prefix)
                            ELSE s3_key))

\* C20: whenever sync_dir returns normally, every listed object whose key
\* does not end with "/" exists as the file local_path/<key relative to
\* s3_prefix> with the object's exact bytes.
C20_SyncDirMirrors ==
    (synccall.op = "sync_dir" /\ ~Raised(synccall.ret)) =>
        \A i \in DOMAIN synccall.listed :
            LET s3_key == synccall.listed[i]
                file == LocalFileOf(s3_key, synccall.s3_prefix, LocalPath)
            IN  s3_key[Len(s3_key)] # "" =>
                    /\ file \in DOMAIN local_fs
                    /\ local_fs[file] = remote[s3_key]

\* the path is local_path or lies under it
Under(path, local_path) ==
    Len(path) >= Len(local_path) /\ SubSeq(path, 1, Len(local_path)) = local_path

\* C27: every file and every directory that sync_dir leaves in the file
\* system lies under local_path.
C27_OnlyInsideLocalPath ==
    \A path \in DOMAIN local_fs : Under(path, LocalPath)

(***************************************************************************)
(* get_stream: properties                                                  *)
(***************************************************************************)
RECURSIVE Concat(_)
Concat(chunks) == IF chunks = <<>> THEN <<>> ELSE Head(chunks) \o Concat(Tail(chunks))

\* C21: for an object that is there, the chunks read from the stream of
\* get_stream are the whole object, and download_object_to_file has made the
\* parent directory, returns its result and leaves file_path holding exactly
\* the object's bytes; for a missing object both raise.
C21_StreamDeliversObject ==
    (transfer.op # "none" /\ transfer.pc = "done") =>
        IF transfer.object = PyNone
        THEN Raised(transfer.ret) /\ transfer.file = PyNone /\ transfer.chunks = <<>>
        ELSE /\ ~Raised(transfer.ret)
             /\ Concat(transfer.chunks) = transfer.object.s
             /\ \A i \in DOMAIN transfer.chunks : Len(transfer.chunks[i]) <= ChunkSize
             /\ transfer.op = "download_object_to_file" =>
                    transfer.made /\ transfer.file = transfer.object

\* C22: every read of the stream happens while the client context that
\* produced it is open.
C22_ReadsWhileClientOpen == transfer.late_reads = 0

\* C28: the body of a bulk request has, for every document in order, its
\* action and the document, and the action carries _id exactly when
\* document_ids has a non-empty entry at the document's position; errors is
\* True exactly when the response's flag is set and an item has an error; an
\* empty document list is answered without an SDK call.
C28_BulkIndex ==
    bulk.op = "bulk_index_documents" =>
        LET n == Len(bulk.documents)
            ids == bulk.document_ids
            HasId(i) == /\ ids.t = "list" /\ i <= Len(ids.l)
                        /\ ids.l[i] # NoDocId /\ ids.l[i] # ""
        IN  IF n = 0
            THEN /\ bulk.sdk = 0
                 /\ bulk.ret = [t |-> "dict", errors |-> FALSE, items |-> <<>>,
                                has_took |-> FALSE]
            ELSE /\ bulk.sdk = 1
                 /\ Len(bulk.body) = 2 * n
                 /\ \A i \in 1..n :
                       /\ bulk.body[2 * i - 1].kind = "action"
                       /\ bulk.body[2 * i - 1].index = bulk.index
                       /\ bulk.body[2 * i - 1].has_id = HasId(i)
                       /\ HasId(i) => bulk.body[2 * i - 1].id = ids.l[i]
                       /\ bulk.body[2 * i].kind = "doc"
                       /\ bulk.body[2 * i].doc = bulk.documents[i]
                 /\ ~Raised(bulk.ret) =>
                       /\ bulk.ret.errors =
                            (/\ bulk.response.errors
                             /\ \E i \in DOMAIN bulk.response.items :
                                   bulk.response.items[i].error # "None")
                       /\ bulk.ret.items = bulk.response.items

\* two documents, ids for the first only ("" for the second), the second
\* document refused by the cluster
C28_Witness ==
    /\ bulk.op = "bulk_index_documents"
    /\ Len(bulk.documents) = 2
    /\ bulk.document_ids = [t |-> "list", l |-> <<"bulk-get-1", "">>]
    /\ bulk.body[1].has_id /\ ~bulk.body[3].has_id
    /\ ~Raised(bulk.ret) /\ bulk.ret.errors

C30_RedisLifespanStartsAndCloses ==
    /\ apps["redis"].pc # "failed"
    /\ apps["redis"].pc = "serving" =>
          /\ {"redis_connection", "redis_client"} \subseteq apps["redis"].state
          /\ apps["redis"].connection = "open"
    /\ apps["redis"].pc = "stopped" => apps["redis"].connection = "closed"

(***************************************************************************)
(* The routes' dependency: properties                                      *)
(***************************************************************************)
\* C29: a handler runs only with the client of the application state: a
\* request that finds no client is answered 500 "<Package> client not
\* initialized" without the handler (and so without an SDK call), and every
\* handler that has run was given the one client that is stored.
C29_ClientFromAppState ==
    /\ \A p \in Packages :
          /\ routing.stored[p] = NoClient => routing.handed[p] = {}
          /\ routing.handed[p] \subseteq {routing.stored[p]}
    /\ routing.request.package \in Packages =>
          LET r == routing.request
          IN  IF r.held = NoClient
              THEN /\ ~r.handler_ran /\ r.sdk = 0
                   /\ r.resp = [status |-> 500, detail |-> <<NotInitialized(r.package)>>,
                                body |-> NoBody]
              ELSE /\ r.handler_ran
                   /\ r.client = r.held
                   /\ r.held = routing.stored[r.package]

\* the last route of the OpenSearch router was refused for want of a client
\* while handlers of the Redis routes have run with the stored client
C29_Witness ==
    /\ routing.request.package = "opensearch"
    /\ routing.request.route = NumRoutes("opensearch")
    /\ routing.request.resp.status = 500
    /\ routing.request.held = NoClient
    /\ routing.handed["redis"] = {2}

(***************************************************************************)
(* Settings: properties                                                    *)
(***************************************************************************)
\* C4: get_settings builds one settings object per module, at the first
\* call that returns one, from the environment of that call; every later
\* call returns that same object with the same field values, whatever the
\* environment has become.
C4_SettingsCached ==
    \A m \in SettingsModules :
        /\ instances[m] <= 1
        /\ (settings_call.module = m /\ first_settings[m] # NoSettings) =>
               /\ settings_call.ret = first_settings[m]
               /\ settings_call.ret = settings_cache[m]
               /\ settings_call.ret.id = 1

\* a later call returned the cached record although the variable now holds a
\* valid value different from the record's
C4_Witness ==
    /\ settings_call.module = "redis"
    /\ settings_call.cached
    /\ settings_call.ret.value = PyInt(6379)
    /\ environ["REDIS_PORT"] = "6380"

(***************************************************************************)
(* OpenSearch: properties                                                  *)
(***************************************************************************)
\* C14: get_document returns the stored _source of a document that the
\* cluster holds and can be asked for, and None in every other case (missing
\* document, missing index, unreachable cluster), never raising; the route
\* answers 404 "Document not found" exactly for None and 200 with
\* {"document": source} otherwise.
C14_GetDocument ==
    oscall.op = "get_document" =>
        LET index == oscall.index
            id == oscall.ids[1]
        IN  /\ ~Raised(oscall.ret)
            /\ (oscall.up /\ Stored(indices, index, id)) =>
                   /\ oscall.ret = indices[index].docs[id]
                   /\ oscall.resp = Ok200([document |-> indices[index].docs[id]])
            /\ ~(oscall.up /\ Stored(indices, index, id)) =>
                   /\ oscall.ret = PyNone
                   /\ oscall.resp = HTTPException(404, <<"Document not found">>)

\* a stored document is asked for while the cluster cannot be reached
C14_Witness ==
    /\ oscall.op = "get_document"
    /\ ~oscall.up
    /\ Stored(indices, oscall.index, oscall.ids[1])
    /\ oscall.ret = PyNone
    /\ oscall.resp.status = 404

\* C15: a get_documents(index, ids) that returns, returns a dictionary whose
\* keys are exactly the requested ids, with the stored _source for a stored
\* document and None for any other id; for an empty id list it returns {}
\* and makes no SDK call.
C15_GetDocuments ==
    oscall.op = "get_documents" =>
        LET index == oscall.index
            ids == oscall.ids
        IN  /\ Raised(oscall.ret) => (~oscall.up /\ ids # <<>>)
            /\ ids = <<>> => (oscall.ret.d = <<>> /\ oscall.sdk = 0)
            /\ ~Raised(oscall.ret) =>
                   /\ DOMAIN oscall.ret.d = {ids[i] : i \in 1..Len(ids)}
                   /\ \A id \in DOMAIN oscall.ret.d :
                          oscall.ret.d[id] = IF Stored(indices, index, id)
                                             THEN indices[index].docs[id]
                                             ELSE PyNone

\* two ids are asked for, one stored and one not
C15_Witness ==
    /\ oscall.op = "get_documents"
    /\ Len(oscall.ids) = 2
    /\ ~Raised(oscall.ret)
    /\ \E a, b \in DOMAIN oscall.ret.d :
          oscall.ret.d[a] = PyNone /\ oscall.ret.d[b] # PyNone

\* C16: DELETE /opensearch/indices/{index_name} answers 404 "Index not found:
\* <name>" exactly when the SDK raises NotFoundError, which a reachable
\* cluster does exactly when the index does not exist, and no index changes
\* then; an existing index is deleted, the SDK response is answered with 200
\* and index_exists reports False afterwards; an unreachable cluster is
\* answered 500 and changes nothing.
C16_DeleteIndex ==
    [][LET name == oscall'.index
       IN  (oscall'.op = "delete_index" /\ DeleteIndex) =>
               /\ (oscall'.resp = HTTPException(404, <<"Index not found: ", name>>))
                      <=> (oscall'.up /\ ~indices[name].exists)
               /\ oscall'.resp.status = 404 =>
                      (indices' = indices /\ oscall'.ret.t = "NotFoundError")
               /\ (oscall'.up /\ indices[name].exists) =>
                      /\ oscall'.resp = Ok200([t |-> "dict", acknowledged |-> TRUE])
                      /\ ~index_exists(indices', name)
                      /\ \A other \in IndexNames \ {name} :
                             indices'[other] = indices[other]
               /\ ~oscall'.up =>
                      /\ oscall'.resp.status = 500
                      /\ indices' = indices
      ]_vars

\* an index is deleted while the other index holds a document
C16_Witness ==
    /\ oscall.op = "delete_index"
    /\ oscall.resp.status = 200
    /\ ~index_exists(indices, oscall.index)
    /\ \E other \in IndexNames, id \in DocIds : Stored(indices, other, id)

\* two requests that differ in their weights and in nothing else
DifferOnlyInWeights(r1, r2) ==
    /\ r1 # r2
    /\ [r1 EXCEPT !.vector_weight = r2.vector_weight,
                  !.text_weight = r2.text_weight] = r2

\* C17: the query body that hybrid_search sends depends on vector_weight and
\* text_weight: two searches that differ only in these weights do not send
\* the same body.
C17_WeightsShapeQuery ==
    \A i, j \in 1..Len(searches) :
        DifferOnlyInWeights(searches[i].request, searches[j].request)
            => searches[i].body # searches[j].body

(***************************************************************************)
(* Specifications                                                          *)
(***************************************************************************)
RedisSpecInit == RedisInit /\ ArtemisInit /\ S3Init /\ LifespanInit /\ SettingsInit /\ OpenSearchInit /\ SyncInit /\ StreamInit /\ LogInit /\ BulkInit /\ RoutingInit

SpecRedis == RedisSpecInit /\ [][RedisNext]_vars
QueuesSpecInit == RedisSpecInit

\* pushes and pops of one queue, with pops that wait
FifoSpecInit == RedisSpecInit
SpecFifo == FifoSpecInit /\ [][FifoNext]_vars
SpecQueues == QueuesSpecInit /\ [][QueuesNext]_vars

ArtemisSpecInit == ArtemisInit /\ RedisIdle /\ S3Init /\ LifespanInit /\ SettingsInit /\ OpenSearchInit /\ SyncInit /\ StreamInit /\ LogInit /\ BulkInit /\ RoutingInit

SpecArtemis == ArtemisSpecInit /\ [][ArtemisNext]_vars

S3SpecInit == S3Init /\ RedisIdle /\ ArtemisInit /\ LifespanInit /\ SettingsInit /\ OpenSearchInit /\ SyncInit /\ StreamInit /\ LogInit /\ BulkInit /\ RoutingInit

SpecS3 == S3SpecInit /\ [][S3Next]_vars

\* the S3 client's object operations against a store that can be out of reach
ObjectsSpecInit == S3SpecInit
SpecObjects == ObjectsSpecInit /\ [][ObjectsNext]_vars

\* uploads to a bucket and sync_dir calls into a new temporary directory
SyncSpecInit == SyncInit /\ RedisIdle /\ ArtemisInit /\ S3Init /\ LifespanInit /\ SettingsInit /\ OpenSearchInit /\ StreamInit /\ LogInit /\ BulkInit /\ RoutingInit
SpecSync == SyncSpecInit /\ [][SyncNext]_vars

\* get_stream and download_object_to_file calls, one at a time
StreamSpecInit == StreamInit /\ RedisIdle /\ ArtemisInit /\ S3Init /\ LifespanInit /\ SettingsInit /\ OpenSearchInit /\ SyncInit /\ LogInit /\ BulkInit /\ RoutingInit
SpecStream == StreamSpecInit /\ [][StreamNext]_vars

LifespanSpecInit == LifespanInit /\ RedisIdle /\ ArtemisInit /\ S3Init /\ SettingsInit /\ OpenSearchInit /\ SyncInit /\ StreamInit /\ LogInit /\ BulkInit /\ RoutingInit

SpecLifespan == LifespanSpecInit /\ [][LifespanNext]_vars

SettingsSpecInit == SettingsInit /\ RedisIdle /\ ArtemisInit /\ S3Init /\ LifespanInit /\ OpenSearchInit /\ SyncInit /\ StreamInit /\ LogInit /\ BulkInit /\ RoutingInit

SpecSettings == SettingsSpecInit /\ [][SettingsNext]_vars

OtherPackagesIdle == RedisIdle /\ ArtemisInit /\ S3Init /\ LifespanInit /\ SettingsInit /\ SyncInit /\ StreamInit /\ LogInit /\ BulkInit /\ RoutingInit
OpenSearchSpecInit == OpenSearchInit /\ OtherPackagesIdle

SpecOpenSearch == OpenSearchSpecInit /\ [][OpenSearchNext]_vars

SearchSpecInit == OpenSearchInit /\ OtherPackagesIdle

\* requests to the routes, with and without a client in the state
RoutingSpecInit == OpenSearchInit /\ OtherPackagesIdle
SpecRouting == RoutingSpecInit /\ [][RoutingNext]_vars

\* bulk indexing
BulkSpecInit == OpenSearchInit /\ OtherPackagesIdle
SpecBulk == BulkSpecInit /\ [][BulkNext]_vars

SpecSearch == SearchSpecInit /\ [][SearchNext]_vars

====
